---- MODULE Spec2Model ----
(***************************************************************************)
(* A state-machine model of the chess rules engine (Position, Move, the    *)
(* six Piece classes, Board and ChessGame).                                *)
(*                                                                         *)
(* Piece objects live in a heap (`pieces`): a Board's grid and its         *)
(* captured list hold references (indices into the heap, 0 for null), so   *)
(* that two boards holding the same reference see the same hasMoved flag,  *)
(* as the TypeScript objects do.  A call that throws is modelled by a      *)
(* result record whose err field names the error.                          *)
(***************************************************************************)
EXTENDS Integers, Sequences, FiniteSets, TLC

\* ------------------------------------------------------------------ enums
WHITE == "White"
BLACK == "Black"
Color == {WHITE, BLACK}

PAWN == "Pawn"
ROOK == "Rook"
KNIGHT == "Knight"
BISHOP == "Bishop"
QUEEN == "Queen"
KING == "King"
PieceType == {PAWN, ROOK, KNIGHT, BISHOP, QUEEN, KING}
\* promotionPiece of a Move built without one (undefined)
NoPromotion == "undefined"

ONGOING == "Ongoing"
CHECK == "Check"
CHECKMATE == "Checkmate"
STALEMATE == "Stalemate"
DRAW == "Draw"
GameState == {ONGOING, CHECK, CHECKMATE, STALEMATE, DRAW}

\* ---------------------------------------------------------------- results
\* A call either returns a value or throws.  RangeError is the engine's
\* "Maximum call stack size exceeded" of an unbounded recursion, Error the
\* `throw new Error(...)` of the source, TypeError an index into undefined.
Ok(v) == [err |-> "none", val |-> v]
Throw(e) == [err |-> e, val |-> FALSE]
Threw(r) == r.err # "none"

\* With(v, F) is F(v): it names the value of a call for the code that uses it
\* more than once (a `const` of the source).
With(v, F(_)) == F(v)

\* ---------------------------------------------------------------- Position
\* The value parseInt gives for a non-digit; every comparison with it is false
\* and arithmetic keeps it.
NaN == 0 - 1000

\* Position's constructor throws exactly when this holds.
PositionThrows(row, col) ==
    \/ (row # NaN /\ (row < 0 \/ row > 7))
    \/ (col # NaN /\ (col < 0 \/ col > 7))

Position(row, col) == [row |-> row, col |-> col]

\* new Position(row, col): the Position, or the Error thrown
NewPosition(row, col) ==
    IF PositionThrows(row, col) THEN Throw("Error") ELSE Ok(Position(row, col))

\* a null Position reference (_enPassantTarget = null)
NullPosition == [row |-> 0 - 1, col |-> 0 - 1]

\* ------------------------------------------------------------------- Move
Move(fromPos, toPos, promotionPiece, isCastling, isEnPassant) ==
    [fromPos |-> fromPos, toPos |-> toPos, promotionPiece |-> promotionPiece,
     isCastling |-> isCastling, isEnPassant |-> isEnPassant]

\* new Move(from, to): the defaults of the optional parameters
PlainMove(fromPos, toPos) == Move(fromPos, toPos, NoPromotion, FALSE, FALSE)

PositionEquals(p, q) ==
    /\ p.row # NaN /\ q.row # NaN /\ p.row = q.row
    /\ p.col # NaN /\ q.col # NaN /\ p.col = q.col

\* a faulty Move.equals, for comparison: the two flags are not compared
MoveEquals_IgnoringFlags(m, other) ==
    /\ PositionEquals(m.fromPos, other.fromPos)
    /\ PositionEquals(m.toPos, other.toPos)
    /\ m.promotionPiece = other.promotionPiece

\* Move.equals
MoveEquals(m, other) ==
    /\ PositionEquals(m.fromPos, other.fromPos)
    /\ PositionEquals(m.toPos, other.toPos)
    /\ m.promotionPiece = other.promotionPiece
    /\ m.isCastling = other.isCastling
    /\ m.isEnPassant = other.isEnPassant

\* ------------------------------------------------------------------ Piece
NewPiece(color, pieceType) ==
    [color |-> color, pieceType |-> pieceType, hasMoved |-> FALSE]

\* markAsMoved on the object the reference id names
MarkAsMoved(h, id) == [h EXCEPT ![id].hasMoved = TRUE]

\* Board.getPiece: the reference stored on a square (0 is null)
GetPiece(b, position) == b.grid[position.row][position.col]

\* Board.setPiece
SetPiece(b, position, id) ==
    [b EXCEPT !.grid[position.row][position.col] = id]

\* ------------------------------------------------------- direction tables
RookDirections == << <<0, 1>>, <<0, -1>>, <<1, 0>>, <<-1, 0>> >>
BishopDirections == << <<1, 1>>, <<1, -1>>, <<-1, 1>>, <<-1, -1>> >>
QueenDirections ==
    << <<0, 1>>, <<0, -1>>, <<1, 0>>, <<-1, 0>>,
       <<1, 1>>, <<1, -1>>, <<-1, 1>>, <<-1, -1>> >>
KnightOffsets ==
    << <<-2, -1>>, <<-2, 1>>, <<-1, -2>>, <<-1, 2>>,
       <<1, -2>>, <<1, 2>>, <<2, -1>>, <<2, 1>> >>
KingDirections ==
    << <<0, 1>>, <<0, -1>>, <<1, 0>>, <<-1, 0>>,
       <<1, 1>>, <<1, -1>>, <<-1, 1>>, <<-1, -1>> >>
PromotionPieces == <<QUEEN, ROOK, BISHOP, KNIGHT>>

\* ------------------------------------------------------------------- Pawn
\* a faulty canEnPassant, for comparison: the destination is not compared with
\* the en-passant target
CanEnPassant_AnySquare(h, b, fromPos, toPos) ==
    IF b.enPassantTarget = NullPosition THEN FALSE
    ELSE IF GetPiece(b, fromPos) = 0 THEN FALSE
    ELSE /\ (fromPos.col - toPos.col = 1 \/ toPos.col - fromPos.col = 1)
         /\ fromPos.row = toPos.row
                + (IF h[GetPiece(b, fromPos)].color = WHITE THEN 1 ELSE 0 - 1)

\* Board.canEnPassant
CanEnPassant(h, b, fromPos, toPos) ==
    IF b.enPassantTarget = NullPosition THEN FALSE
    ELSE IF GetPiece(b, fromPos) = 0 THEN FALSE
    ELSE /\ PositionEquals(toPos, b.enPassantTarget)
         /\ (fromPos.col - toPos.col = 1 \/ toPos.col - fromPos.col = 1)
         /\ fromPos.row = toPos.row
                + (IF h[GetPiece(b, fromPos)].color = WHITE THEN 1 ELSE 0 - 1)

\* the four promotion moves pushed by promotionPieces.forEach
PromotionMoves(fromPos, toPos) ==
    [i \in 1..Len(PromotionPieces) |->
        Move(fromPos, toPos, PromotionPieces[i], FALSE, FALSE)]

\* a faulty diagonal step, for comparison: an empty diagonal square is moved
\* onto as well
PawnDiagonal_OntoEmpty(h, b, piece, currentPos, newRow, colOffset) ==
    LET newCol == currentPos.col + colOffset IN
    IF newCol >= 0 /\ newCol <= 7 /\ newRow >= 0 /\ newRow <= 7
    THEN LET capturePos == Position(newRow, newCol)
             target == GetPiece(b, capturePos)
         IN IF target = 0 \/ h[target].color # piece.color
            THEN IF newRow = 0 \/ newRow = 7
                 THEN PromotionMoves(currentPos, capturePos)
                 ELSE <<PlainMove(currentPos, capturePos)>>
            ELSE <<>>
    ELSE <<>>

\* the body of [-1, 1].forEach for one colOffset
PawnDiagonal(h, b, piece, currentPos, newRow, colOffset) ==
    LET newCol == currentPos.col + colOffset IN
    IF newCol >= 0 /\ newCol <= 7 /\ newRow >= 0 /\ newRow <= 7
    THEN LET capturePos == Position(newRow, newCol)
             target == GetPiece(b, capturePos)
         IN IF target # 0 /\ h[target].color # piece.color
            THEN IF newRow = 0 \/ newRow = 7
                 THEN PromotionMoves(currentPos, capturePos)
                 ELSE <<PlainMove(currentPos, capturePos)>>
            ELSE IF CanEnPassant(h, b, currentPos, capturePos)
                 THEN <<Move(currentPos, capturePos, NoPromotion, FALSE, TRUE)>>
                 ELSE <<>>
    ELSE <<>>

\* Pawn.getPossibleMoves
PawnMoves(h, b, piece, currentPos) ==
    LET direction == IF piece.color = WHITE THEN 0 - 1 ELSE 1
        newRow == currentPos.row + direction
        newPos == Position(newRow, currentPos.col)
        oneFree == newRow >= 0 /\ newRow <= 7 /\ GetPiece(b, newPos) = 0
        one == IF ~oneFree THEN <<>>
               ELSE IF newRow = 0 \/ newRow = 7
                    THEN PromotionMoves(currentPos, newPos)
                    ELSE <<PlainMove(currentPos, newPos)>>
        twoRow == newRow + direction
        twoForward == Position(twoRow, currentPos.col)
        two == IF oneFree /\ ~piece.hasMoved /\ GetPiece(b, twoForward) = 0
               THEN <<PlainMove(currentPos, twoForward)>>
               ELSE <<>>
    IN \* new Position(newRow + direction, col) is built before its row is tested
       IF oneFree /\ ~piece.hasMoved /\ PositionThrows(twoRow, currentPos.col)
       THEN Throw("Error")
       ELSE Ok(one \o two
                 \o PawnDiagonal(h, b, piece, currentPos, newRow, 0 - 1)
                 \o PawnDiagonal(h, b, piece, currentPos, newRow, 1))

\* ------------------------------------------------- Rook, Bishop and Queen
\* the `for (let distance = 1; distance < 8; distance++)` loop of one direction
RECURSIVE SlideFrom(_, _, _, _, _, _, _)

\* a faulty loop, for comparison: the square of the own piece that blocks the
\* ray is moved onto
SlideFrom_OntoOwn(h, b, piece, currentPos, dr, dc, distance) ==
    IF distance >= 8 THEN <<>>
    ELSE LET newRow == currentPos.row + dr * distance
             newCol == currentPos.col + dc * distance
         IN IF newRow < 0 \/ newRow > 7 \/ newCol < 0 \/ newCol > 7 THEN <<>>
            ELSE LET newPos == Position(newRow, newCol)
                     target == GetPiece(b, newPos)
                 IN IF target = 0
                    THEN <<PlainMove(currentPos, newPos)>>
                         \o SlideFrom(h, b, piece, currentPos, dr, dc, distance + 1)
                    ELSE <<PlainMove(currentPos, newPos)>>

\* Rook, Bishop and Queen: the loop of one direction
SlideFrom(h, b, piece, currentPos, dr, dc, distance) ==
    IF distance >= 8 THEN <<>>
    ELSE LET newRow == currentPos.row + dr * distance
             newCol == currentPos.col + dc * distance
         IN IF newRow < 0 \/ newRow > 7 \/ newCol < 0 \/ newCol > 7 THEN <<>>
            ELSE LET newPos == Position(newRow, newCol)
                     target == GetPiece(b, newPos)
                 IN IF target = 0
                    THEN <<PlainMove(currentPos, newPos)>>
                         \o SlideFrom(h, b, piece, currentPos, dr, dc, distance + 1)
                    ELSE IF h[target].color # piece.color
                         THEN <<PlainMove(currentPos, newPos)>>
                         ELSE <<>>

\* directions.forEach from the i-th direction on
RECURSIVE SlidingMoves(_, _, _, _, _, _)
SlidingMoves(h, b, piece, currentPos, directions, i) ==
    IF i > Len(directions) THEN <<>>
    ELSE SlideFrom(h, b, piece, currentPos, directions[i][1], directions[i][2], 1)
         \o SlidingMoves(h, b, piece, currentPos, directions, i + 1)

\* Rook.getPossibleMoves
RookMoves(h, b, piece, currentPos) ==
    SlidingMoves(h, b, piece, currentPos, RookDirections, 1)

\* Bishop.getPossibleMoves
BishopMoves(h, b, piece, currentPos) ==
    SlidingMoves(h, b, piece, currentPos, BishopDirections, 1)

\* Queen.getPossibleMoves
QueenMoves(h, b, piece, currentPos) ==
    SlidingMoves(h, b, piece, currentPos, QueenDirections, 1)

\* ---------------------------------------------------------------- Knight
\* the offset loop shared by Knight.getPossibleMoves and the adjacent-square
\* part of King.getPossibleMoves, from the i-th offset on
RECURSIVE StepMoves(_, _, _, _, _, _)
StepMoves(h, b, piece, currentPos, offsets, i) ==
    IF i > Len(offsets) THEN <<>>
    ELSE LET newRow == currentPos.row + offsets[i][1]
             newCol == currentPos.col + offsets[i][2]
             here ==
                 IF newRow >= 0 /\ newRow <= 7 /\ newCol >= 0 /\ newCol <= 7
                 THEN LET newPos == Position(newRow, newCol)
                          target == GetPiece(b, newPos)
                      IN IF target = 0 \/ h[target].color # piece.color
                         THEN <<PlainMove(currentPos, newPos)>>
                         ELSE <<>>
                 ELSE <<>>
         IN here \o StepMoves(h, b, piece, currentPos, offsets, i + 1)

\* Knight.getPossibleMoves
KnightMoves(h, b, piece, currentPos) ==
    StepMoves(h, b, piece, currentPos, KnightOffsets, 1)

\* ------------------------------------------- King and the attack queries
\* the least element of a non-empty set of square indices (row * 8 + col): the
\* square the nested `for row` / `for col` loops reach first
First(squares) == CHOOSE i \in squares : \A j \in squares : i <= j

\* Board.findKing: the first king of the colour in row-major order, or
\* NullPosition for null
FindKing(h, b, color) ==
    LET kings == {idx \in 0..63 :
                     LET id == b.grid[idx \div 8][idx % 8] IN
                     id # 0 /\ h[id].pieceType = KING /\ h[id].color = color}
    IN IF kings = {} THEN NullPosition
       ELSE Position(First(kings) \div 8, First(kings) % 8)

\* does some move of the list land on position
LandsOn(moves, position) ==
    \E i \in 1..Len(moves) : PositionEquals(moves[i].toPos, position)

\* `active` is the set of colours whose isInCheck call is on the call stack:
\* board and pieces do not change during these queries, so a second isInCheck
\* of a colour in `active` repeats the first one and the recursion never ends.
RECURSIVE IsInCheckIn(_, _, _, _)
RECURSIVE AttackScan(_, _, _, _, _)
RECURSIVE GetPossibleMovesIn(_, _, _, _)
RECURSIVE CanCastleThrough(_, _, _, _, _, _)

\* King.canCastleThrough over positions[i..]
CanCastleThrough(h, b, color, positions, i, active) ==
    IF i > Len(positions) THEN Ok(TRUE)
    ELSE IF GetPiece(b, positions[i]) # 0 THEN Ok(FALSE)
    ELSE With(AttackScan(h, b, positions[i],
                         IF color = WHITE THEN BLACK ELSE WHITE, active),
              LAMBDA att :
                  IF Threw(att) THEN att
                  ELSE IF att.val THEN Ok(FALSE)
                  ELSE CanCastleThrough(h, b, color, positions, i + 1, active))

\* the kingside half of King.getCastlingMoves: whether the move is offered
CastlesKingside(h, b, piece, currentPos, active) ==
    LET kingsideRook == GetPiece(b, Position(currentPos.row, 7)) IN
    IF kingsideRook # 0 /\ h[kingsideRook].pieceType = ROOK
       /\ ~h[kingsideRook].hasMoved
    THEN CanCastleThrough(h, b, piece.color,
             <<currentPos, Position(currentPos.row, 6),
               Position(currentPos.row, 5)>>, 1, active)
    ELSE Ok(FALSE)

\* the queenside half of King.getCastlingMoves: whether the move is offered
CastlesQueenSide(h, b, piece, currentPos, active) ==
    LET queenSideRook == GetPiece(b, Position(currentPos.row, 0)) IN
    IF queenSideRook # 0 /\ h[queenSideRook].pieceType = ROOK
       /\ ~h[queenSideRook].hasMoved
    THEN CanCastleThrough(h, b, piece.color,
             <<currentPos, Position(currentPos.row, 2),
               Position(currentPos.row, 3), Position(currentPos.row, 1)>>,
             1, active)
    ELSE Ok(FALSE)

\* King.getCastlingMoves
GetCastlingMoves(h, b, piece, currentPos, active) ==
    With(CastlesKingside(h, b, piece, currentPos, active), LAMBDA kingside :
      IF Threw(kingside) THEN kingside
      ELSE With(CastlesQueenSide(h, b, piece, currentPos, active),
                LAMBDA queenSide :
        IF Threw(queenSide) THEN queenSide
        ELSE Ok((IF kingside.val
                 THEN <<Move(currentPos, Position(currentPos.row, 6),
                             NoPromotion, TRUE, FALSE)>>
                 ELSE <<>>)
                \o (IF queenSide.val
                    THEN <<Move(currentPos, Position(currentPos.row, 2),
                                NoPromotion, TRUE, FALSE)>>
                    ELSE <<>>))))

\* King.getPossibleMoves
KingMoves(h, b, piece, currentPos, active) ==
    LET adjacent == StepMoves(h, b, piece, currentPos, KingDirections, 1) IN
    IF piece.hasMoved THEN Ok(adjacent)
    ELSE With(IsInCheckIn(h, b, piece.color, active), LAMBDA chk :
           IF Threw(chk) THEN chk
           ELSE IF chk.val THEN Ok(adjacent)
           ELSE With(GetCastlingMoves(h, b, piece, currentPos, active),
                     LAMBDA castling :
                         IF Threw(castling) THEN castling
                         ELSE Ok(adjacent \o castling.val)))

\* piece.getPossibleMoves(board, currentPos), dispatched on the piece's class
GetPossibleMovesIn(h, b, currentPos, active) ==
    LET piece == h[GetPiece(b, currentPos)] IN
    CASE piece.pieceType = PAWN -> PawnMoves(h, b, piece, currentPos)
      [] piece.pieceType = ROOK -> Ok(RookMoves(h, b, piece, currentPos))
      [] piece.pieceType = KNIGHT -> Ok(KnightMoves(h, b, piece, currentPos))
      [] piece.pieceType = BISHOP -> Ok(BishopMoves(h, b, piece, currentPos))
      [] piece.pieceType = QUEEN -> Ok(QueenMoves(h, b, piece, currentPos))
      [] piece.pieceType = KING -> KingMoves(h, b, piece, currentPos, active)

\* a faulty loop body, for comparison: a pawn hits the two squares diagonally
\* in front of it and no other
AttackFrom_PawnsDiagonal(h, b, position, idx, active) ==
    LET piece == h[b.grid[idx \div 8][idx % 8]] IN
    IF piece.pieceType = PAWN
    THEN IF /\ position.row = (idx \div 8) + (IF piece.color = WHITE THEN 0 - 1 ELSE 1)
            /\ position.col - (idx % 8) \in {0 - 1, 1}
         THEN "hit" ELSE "miss"
    ELSE With(GetPossibleMovesIn(h, b, Position(idx \div 8, idx % 8), active),
              LAMBDA possibleMoves :
                  IF Threw(possibleMoves) THEN possibleMoves.err
                  ELSE IF LandsOn(possibleMoves.val, position) THEN "hit"
                  ELSE "miss")

\* what the body of the loops of Board.isPositionUnderAttack finds on one
\* opponent square: the error its getPossibleMoves throws, "hit" if one of its
\* moves lands on position, "miss" otherwise
AttackFrom(h, b, position, idx, active) ==
    With(GetPossibleMovesIn(h, b, Position(idx \div 8, idx % 8), active),
         LAMBDA possibleMoves :
             IF Threw(possibleMoves) THEN possibleMoves.err
             ELSE IF LandsOn(possibleMoves.val, position) THEN "hit"
             ELSE "miss")

\* the first square that decides the loops, given each square's finding
AttackDecided(squares, seen) ==
    LET decisive == {idx \in squares : seen[idx] # "miss"} IN
    IF decisive = {} THEN Ok(FALSE)
    ELSE IF seen[First(decisive)] = "hit" THEN Ok(TRUE)
    ELSE Throw(seen[First(decisive)])

\* The row/col loops of Board.isPositionUnderAttack.  The loops stop at the
\* first opponent piece, in row-major order, whose getPossibleMoves throws or
\* holds a move landing on position.
AttackScan(h, b, position, opponentColor, active) ==
    LET squares == {idx \in 0..63 :
                       LET id == b.grid[idx \div 8][idx % 8] IN
                       id # 0 /\ h[id].color = opponentColor}
    IN AttackDecided(squares,
           [idx \in squares |-> AttackFrom(h, b, position, idx, active)])

\* Board.isInCheck, entered with the isInCheck calls of `active` on the stack
IsInCheckIn(h, b, color, active) ==
    IF color \in active THEN Throw("RangeError")
    ELSE LET kingPos == FindKing(h, b, color) IN
         IF kingPos = NullPosition THEN Ok(FALSE)
         ELSE AttackScan(h, b, kingPos, IF color = WHITE THEN BLACK ELSE WHITE,
                         active \cup {color})

\* Board.isInCheck
IsInCheck(h, b, color) == IsInCheckIn(h, b, color, {})

\* Board.isPositionUnderAttack
IsPositionUnderAttack(h, b, position, byColor) ==
    AttackScan(h, b, position, IF byColor = WHITE THEN BLACK ELSE WHITE, {})

\* piece.getPossibleMoves called from outside the attack queries
GetPossibleMoves(h, b, currentPos) == GetPossibleMovesIn(h, b, currentPos, {})

\* ------------------------------------------------------------------ Board
PieceOrder == <<ROOK, KNIGHT, BISHOP, QUEEN, KING, BISHOP, KNIGHT, ROOK>>

\* The 32 Piece objects in the order Board.initializeBoard creates them: for
\* each column the black then the white pawn, then for each column the black
\* then the white piece of pieceOrder.
InitialPieces ==
    [i \in 1..32 |->
        IF i <= 16
        THEN NewPiece(IF i % 2 = 1 THEN BLACK ELSE WHITE, PAWN)
        ELSE NewPiece(IF i % 2 = 1 THEN BLACK ELSE WHITE,
                      PieceOrder[((i - 17) \div 2) + 1])]

\* the grid Board.initializeBoard fills
InitialGrid ==
    [row \in 0..7 |-> [col \in 0..7 |->
        CASE row = 1 -> 2 * col + 1
          [] row = 6 -> 2 * col + 2
          [] row = 0 -> 17 + 2 * col
          [] row = 7 -> 18 + 2 * col
          [] OTHER -> 0]]

\* new Board(): the field initialisers and the constructor
NewBoard ==
    [grid |-> InitialGrid,
     moveHistory |-> <<>>,
     capturedPieces |-> <<>>,
     enPassantTarget |-> NullPosition,
     halfMoveClock |-> 0,
     fullMoveNumber |-> 1]

\* The outcome of an operation that mutates: the error thrown (or "none"), the
\* value returned, and the heap and board it leaves behind.
Outcome(err, val, h, b) == [err |-> err, val |-> val, heap |-> h, board |-> b]

\* Board.executeCastling
ExecuteCastling(h, b, move) ==
    LET king == GetPiece(b, move.fromPos)
        row == move.fromPos.row
    IN IF king = 0 THEN Outcome("Error: No king found for castling move", FALSE, h, b)
       ELSE LET b1 == SetPiece(SetPiece(b, move.toPos, king), move.fromPos, 0)
                h1 == MarkAsMoved(h, king)
                rookCol == IF move.toPos.col = 6 THEN 7 ELSE 0
                rookTo == IF move.toPos.col = 6 THEN 5 ELSE 3
                rook == GetPiece(b1, Position(row, rookCol))
            IN IF rook = 0
               THEN Outcome(IF move.toPos.col = 6
                            THEN "Error: No rook found for kingside castling"
                            ELSE "Error: No rook found for queenSide castling",
                            FALSE, h1, b1)
               ELSE Outcome("none", TRUE, MarkAsMoved(h1, rook),
                        SetPiece(SetPiece(b1, Position(row, rookTo), rook),
                                 Position(row, rookCol), 0))

\* a faulty executeEnPassant, for comparison: the pawn taken is not pushed on
\* the captured list
ExecuteEnPassant_Unrecorded(h, b, move) ==
    LET pawn == GetPiece(b, move.fromPos) IN
    IF pawn = 0 THEN Outcome("Error: No pawn found for en passant move", FALSE, h, b)
    ELSE Outcome("none", TRUE, MarkAsMoved(h, pawn),
             SetPiece(SetPiece(SetPiece(b, move.toPos, pawn), move.fromPos, 0),
                      Position(move.fromPos.row, move.toPos.col), 0))

\* Board.executeEnPassant
ExecuteEnPassant(h, b, move) ==
    LET pawn == GetPiece(b, move.fromPos) IN
    IF pawn = 0 THEN Outcome("Error: No pawn found for en passant move", FALSE, h, b)
    ELSE LET b1 == SetPiece(SetPiece(b, move.toPos, pawn), move.fromPos, 0)
             h1 == MarkAsMoved(h, pawn)
             capturedPawnPos == Position(move.fromPos.row, move.toPos.col)
             capturedPawn == GetPiece(b1, capturedPawnPos)
             b2 == IF capturedPawn # 0
                   THEN [b1 EXCEPT !.capturedPieces = Append(@, capturedPawn)]
                   ELSE b1
         IN Outcome("none", TRUE, h1, SetPiece(b2, capturedPawnPos, 0))

\* a faulty updateEnPassantTarget, for comparison: a target is never cleared
UpdateEnPassantTarget_Sticky(h, b, move) ==
    LET piece == GetPiece(b, move.toPos)
        rowDiff == move.fromPos.row - move.toPos.row
    IN IF piece # 0 /\ h[piece].pieceType = PAWN /\ (rowDiff = 2 \/ rowDiff = 0 - 2)
       THEN [b EXCEPT !.enPassantTarget =
                Position((move.fromPos.row + move.toPos.row) \div 2, move.toPos.col)]
       ELSE b

\* Board.updateEnPassantTarget
UpdateEnPassantTarget(h, b, move) ==
    LET piece == GetPiece(b, move.toPos)
        rowDiff == move.fromPos.row - move.toPos.row
    IN IF piece # 0 /\ h[piece].pieceType = PAWN /\ (rowDiff = 2 \/ rowDiff = 0 - 2)
       THEN [b EXCEPT !.enPassantTarget =
                Position((move.fromPos.row + move.toPos.row) \div 2, move.toPos.col)]
       ELSE [b EXCEPT !.enPassantTarget = NullPosition]

\* a faulty updateMoveCounters, for comparison: the full-move number counts
\* every move
UpdateMoveCounters_EveryMove(h, b, move, capturedPiece) ==
    LET piece == GetPiece(b, move.toPos) IN
    IF piece = 0 THEN b
    ELSE [b EXCEPT
            !.halfMoveClock =
                IF h[piece].pieceType = PAWN \/ capturedPiece # 0 THEN 0 ELSE @ + 1,
            !.fullMoveNumber = @ + 1]

\* Board.updateMoveCounters
UpdateMoveCounters(h, b, move, capturedPiece) ==
    LET piece == GetPiece(b, move.toPos) IN
    IF piece = 0 THEN b
    ELSE [b EXCEPT
            !.halfMoveClock =
                IF h[piece].pieceType = PAWN \/ capturedPiece # 0 THEN 0 ELSE @ + 1,
            !.fullMoveNumber = IF h[piece].color = BLACK THEN @ + 1 ELSE @]

\* faulty branches, for comparison: the promoted piece is not marked as moved
PlacePiece_Unmarked(h, b, move, piece) ==
    IF move.isCastling THEN ExecuteCastling(h, b, move)
    ELSE IF move.isEnPassant THEN ExecuteEnPassant(h, b, move)
    ELSE IF move.promotionPiece # NoPromotion
    THEN Outcome("none", TRUE,
             Append(h, NewPiece(h[piece].color, move.promotionPiece)),
             SetPiece(SetPiece(b, move.toPos, Len(h) + 1), move.fromPos, 0))
    ELSE Outcome("none", TRUE, MarkAsMoved(h, piece),
             SetPiece(SetPiece(b, move.toPos, piece), move.fromPos, 0))

\* the castling / en passant / promotion / ordinary branches of Board.executeMove
PlacePiece(h, b, move, piece) ==
    IF move.isCastling THEN ExecuteCastling(h, b, move)
    ELSE IF move.isEnPassant THEN ExecuteEnPassant(h, b, move)
    ELSE IF move.promotionPiece # NoPromotion
    THEN \* PieceFactory.createPiece allocates a new object
         LET promotedPiece == Len(h) + 1
             h1 == Append(h, NewPiece(h[piece].color, move.promotionPiece))
         IN Outcome("none", TRUE, MarkAsMoved(h1, promotedPiece),
                SetPiece(SetPiece(b, move.toPos, promotedPiece), move.fromPos, 0))
    ELSE Outcome("none", TRUE, MarkAsMoved(h, piece),
             SetPiece(SetPiece(b, move.toPos, piece), move.fromPos, 0))

\* the tail of Board.executeMove: captured list, history, en passant target
\* and move counters
RecordMove(h, b, move, capturedPiece) ==
    LET b1 == IF capturedPiece # 0
              THEN [b EXCEPT !.capturedPieces = Append(@, capturedPiece)]
              ELSE b
        b2 == [b1 EXCEPT !.moveHistory = Append(@, move)]
        b3 == UpdateEnPassantTarget(h, b2, move)
    IN UpdateMoveCounters(h, b3, move, capturedPiece)

\* Board.executeMove
ExecuteMove(h, b, move) ==
    IF GetPiece(b, move.fromPos) = 0
    THEN Outcome("Error: Attempted to execute move with no piece at source position",
                 FALSE, h, b)
    ELSE With(PlacePiece(h, b, move, GetPiece(b, move.fromPos)), LAMBDA placed :
           IF placed.err # "none" THEN placed
           ELSE Outcome("none", TRUE, placed.heap,
                    RecordMove(placed.heap, placed.board, move,
                               GetPiece(b, move.toPos))))

\* Board.deepCopy: a new Board whose rows are copies of the rows (the same Piece
\* references), whose lists are copies and whose scalars are copied.
DeepCopy(b) ==
    [grid |-> [row \in 0..7 |-> [col \in 0..7 |-> b.grid[row][col]]],
     moveHistory |-> [i \in 1..Len(b.moveHistory) |-> b.moveHistory[i]],
     capturedPieces |-> [i \in 1..Len(b.capturedPieces) |-> b.capturedPieces[i]],
     enPassantTarget |-> b.enPassantTarget,
     halfMoveClock |-> b.halfMoveClock,
     fullMoveNumber |-> b.fullMoveNumber]

\* The objects of heap h2 that the live board can still reach once a simulation
\* on a copy is over: the first n (objects the copy allocated are dropped with it).
Surviving(h2, n) == [i \in 1..n |-> h2[i]]

\* the isInCheck call of Board.wouldBeInCheckAfterMove on the executed copy
CheckAfter(executed, color, n) ==
    IF executed.err # "none"
    THEN [err |-> executed.err, val |-> FALSE,
          heap |-> Surviving(executed.heap, n)]
    ELSE With(IsInCheck(executed.heap, executed.board, color), LAMBDA chk :
           [err |-> chk.err, val |-> chk.val,
            heap |-> Surviving(executed.heap, n)])

\* a faulty wouldBeInCheckAfterMove, for comparison: it simulates the move but
\* always answers false
WouldBeInCheckAfterMove_Never(h, b, move, color) ==
    [CheckAfter(ExecuteMove(h, DeepCopy(b), move), color, Len(h))
        EXCEPT !.val = FALSE]

\* Board.wouldBeInCheckAfterMove: err, the value returned and the heap afterwards
WouldBeInCheckAfterMove(h, b, move, color) ==
    CheckAfter(ExecuteMove(h, DeepCopy(b), move), color, Len(h))

\* a faulty isMoveValid, for comparison: every move is valid
IsMoveValid_Any(h, b, move) == Ok(TRUE)

\* Piece.isMoveValid
IsMoveValid(h, b, move) ==
    With(GetPossibleMoves(h, b, move.fromPos), LAMBDA possibleMoves :
      IF Threw(possibleMoves) THEN possibleMoves
      ELSE Ok(\E i \in 1..Len(possibleMoves.val) :
                  MoveEquals(possibleMoves.val[i], move)))

\* a faulty Board.makeMove, for comparison: the answer of
\* wouldBeInCheckAfterMove is not looked at
MakeValidMove_Unchecked(h, b, move, color) ==
    With(WouldBeInCheckAfterMove(h, b, move, color), LAMBDA would :
      IF would.err # "none" THEN Outcome(would.err, FALSE, would.heap, b)
      ELSE With(ExecuteMove(would.heap, b, move), LAMBDA executed :
             Outcome(executed.err, executed.err = "none",
                     executed.heap, executed.board)))

\* Board.makeMove once the move is among the piece's possible moves
MakeValidMove(h, b, move, color) ==
    With(WouldBeInCheckAfterMove(h, b, move, color), LAMBDA would :
      IF would.err # "none" THEN Outcome(would.err, FALSE, would.heap, b)
      ELSE IF would.val THEN Outcome("none", FALSE, would.heap, b)
      ELSE With(ExecuteMove(would.heap, b, move), LAMBDA executed :
             Outcome(executed.err, executed.err = "none",
                     executed.heap, executed.board)))

\* Board.makeMove
BoardMakeMove(h, b, move) ==
    IF GetPiece(b, move.fromPos) = 0 THEN Outcome("none", FALSE, h, b)
    ELSE With(IsMoveValid(h, b, move), LAMBDA valid :
           IF Threw(valid) THEN Outcome(valid.err, FALSE, h, b)
           ELSE IF ~valid.val THEN Outcome("none", FALSE, h, b)
           ELSE MakeValidMove(h, b, move, h[GetPiece(b, move.fromPos)].color))

\* possibleMoves.forEach of Board.getAllLegalMoves from the i-th move on
RECURSIVE FilterLegal(_, _, _, _, _, _)
FilterLegal(h, b, color, possibleMoves, i, legalMoves) ==
    IF i > Len(possibleMoves) THEN [err |-> "none", val |-> legalMoves, heap |-> h]
    ELSE With(WouldBeInCheckAfterMove(h, b, possibleMoves[i], color),
              LAMBDA would :
           IF would.err # "none"
           THEN [err |-> would.err, val |-> legalMoves, heap |-> would.heap]
           ELSE FilterLegal(would.heap, b, color, possibleMoves, i + 1,
                            IF would.val THEN legalMoves
                            ELSE Append(legalMoves, possibleMoves[i])))

\* The row/col loops of Board.getAllLegalMoves from square index idx on: the
\* squares that hold no piece of the colour are skipped in one step.
RECURSIVE LegalScan(_, _, _, _, _)

\* the loop body for the piece on square sq, then the rest of the loops
LegalFrom(h, b, color, sq, legalMoves) ==
    With(GetPossibleMoves(h, b, Position(sq \div 8, sq % 8)),
         LAMBDA possibleMoves :
      IF Threw(possibleMoves)
      THEN [err |-> possibleMoves.err, val |-> legalMoves, heap |-> h]
      ELSE With(FilterLegal(h, b, color, possibleMoves.val, 1, legalMoves),
                LAMBDA kept :
             IF kept.err # "none" THEN kept
             ELSE LegalScan(kept.heap, b, color, sq + 1, kept.val)))

LegalScan(h, b, color, idx, legalMoves) ==
    LET squares == {i \in idx..63 :
                       LET id == b.grid[i \div 8][i % 8] IN
                       id # 0 /\ h[id].color = color}
    IN IF squares = {} THEN [err |-> "none", val |-> legalMoves, heap |-> h]
       ELSE LegalFrom(h, b, color, First(squares), legalMoves)

\* Board.getAllLegalMoves: err, the list returned and the heap afterwards
GetAllLegalMoves(h, b, color) == LegalScan(h, b, color, 0, <<>>)

\* `this.getAllLegalMoves(color).length === 0` of isCheckmate and isStalemate
NoLegalMoves(h, b, color) ==
    With(GetAllLegalMoves(h, b, color), LAMBDA legal :
      [err |-> legal.err, val |-> Len(legal.val) = 0, heap |-> legal.heap])

\* a faulty isCheckmate, for comparison: the answer of isInCheck is not looked at
IsCheckmate_IgnoringCheck(h, b, color) ==
    With(IsInCheck(h, b, color), LAMBDA chk :
      IF Threw(chk) THEN [err |-> chk.err, val |-> FALSE, heap |-> h]
      ELSE NoLegalMoves(h, b, color))

\* Board.isCheckmate
IsCheckmate(h, b, color) ==
    With(IsInCheck(h, b, color), LAMBDA chk :
      IF Threw(chk) THEN [err |-> chk.err, val |-> FALSE, heap |-> h]
      ELSE IF ~chk.val THEN [err |-> "none", val |-> FALSE, heap |-> h]
      ELSE NoLegalMoves(h, b, color))

\* Board.isStalemate
IsStalemate(h, b, color) ==
    With(IsInCheck(h, b, color), LAMBDA chk :
      IF Threw(chk) THEN [err |-> chk.err, val |-> FALSE, heap |-> h]
      ELSE IF chk.val THEN [err |-> "none", val |-> FALSE, heap |-> h]
      ELSE NoLegalMoves(h, b, color))

\* ------------------------------------------------------- algebraic notation
\* A string is a sequence of one-character strings.
LowerCase == <<"a", "b", "c", "d", "e", "f", "g", "h", "i", "j", "k", "l", "m",
               "n", "o", "p", "q", "r", "s", "t", "u", "v", "w", "x", "y", "z">>
UpperCase == <<"A", "B", "C", "D", "E", "F", "G", "H", "I", "J", "K", "L", "M",
               "N", "O", "P", "Q", "R", "S", "T", "U", "V", "W", "X", "Y", "Z">>
Digits == <<"0", "1", "2", "3", "4", "5", "6", "7", "8", "9">>

IndexIn(table, ch) == CHOOSE i \in 1..Len(table) : table[i] = ch
IsIn(table, ch) == \E i \in 1..Len(table) : table[i] = ch

\* String.charCodeAt for one character ("?" is 63; anything else used is " ")
CharCodeAt(ch) ==
    IF IsIn(LowerCase, ch) THEN 96 + IndexIn(LowerCase, ch)
    ELSE IF IsIn(UpperCase, ch) THEN 64 + IndexIn(UpperCase, ch)
    ELSE IF IsIn(Digits, ch) THEN 47 + IndexIn(Digits, ch)
    ELSE IF ch = "?" THEN 63
    ELSE 32

\* parseInt(ch, 10) of a one-character string
ParseInt(ch) == IF IsIn(Digits, ch) THEN IndexIn(Digits, ch) - 1 ELSE NaN

\* String.toUpperCase, character by character
ToUpperCase(str) ==
    [i \in 1..Len(str) |->
        IF IsIn(LowerCase, str[i]) THEN UpperCase[IndexIn(LowerCase, str[i])]
        ELSE str[i]]

\* a faulty toAlgebraic, for comparison: the rank counts from row 0
ToAlgebraic_RankFromRow(position) ==
    <<LowerCase[position.col + 1], Digits[(position.row + 1) + 1]>>

\* Position.toAlgebraic
ToAlgebraic(position) ==
    <<LowerCase[position.col + 1], Digits[(8 - position.row) + 1]>>

\* Position.fromAlgebraic: the Position, or the Error thrown
FromAlgebraic(notation) ==
    IF Len(notation) # 2 THEN Throw("Error")
    ELSE LET col == CharCodeAt(notation[1]) - 97
             digit == ParseInt(notation[2])
             row == IF digit = NaN THEN NaN ELSE 8 - digit
         IN IF PositionThrows(row, col) THEN Throw("Error")
            ELSE Ok(Position(row, col))

\* ---------------------------------------------------------------- ChessGame
\* The outcome of a ChessGame operation: the error thrown (or "none"), the value
\* returned and the fields of the game afterwards.
GameOutcome(err, val, h, b, player, state, count) ==
    [err |-> err, val |-> val, pieces |-> h, board |-> b,
     currentPlayer |-> player, gameState |-> state, moveCount |-> count]

\* the half-move count of the 50-move rule in ChessGame.isDraw
DrawHalfMoves == 100

\* a faulty isDraw, for comparison: the clock must pass the limit
IsDraw_Over(b) == b.halfMoveClock > DrawHalfMoves

\* ChessGame.isDraw
IsDraw(b) == b.halfMoveClock >= DrawHalfMoves

\* ChessGame.switchPlayer
SwitchPlayer(player) == IF player = WHITE THEN BLACK ELSE WHITE

\* a faulty last branch of updateGameState, for comparison: Draw before Check
CheckOrDraw_DrawFirst(h, b, player, state) ==
    With(IsInCheck(h, b, player), LAMBDA chk :
      IF Threw(chk) THEN [err |-> chk.err, gameState |-> state, heap |-> h]
      ELSE [err |-> "none",
            gameState |-> IF IsDraw(b) THEN DRAW
                          ELSE IF chk.val THEN CHECK
                          ELSE ONGOING,
            heap |-> h])

\* the last branch of ChessGame.updateGameState: Check, Draw or Ongoing
CheckOrDraw(h, b, player, state) ==
    With(IsInCheck(h, b, player), LAMBDA chk :
      IF Threw(chk) THEN [err |-> chk.err, gameState |-> state, heap |-> h]
      ELSE [err |-> "none",
            gameState |-> IF chk.val THEN CHECK
                          ELSE IF IsDraw(b) THEN DRAW
                          ELSE ONGOING,
            heap |-> h])

\* the branches of ChessGame.updateGameState after isCheckmate returned false
StalemateOrLater(h, b, player, state) ==
    With(IsStalemate(h, b, player), LAMBDA stale :
      IF stale.err # "none"
      THEN [err |-> stale.err, gameState |-> state, heap |-> stale.heap]
      ELSE IF stale.val
      THEN [err |-> "none", gameState |-> STALEMATE, heap |-> stale.heap]
      ELSE CheckOrDraw(stale.heap, b, player, state))

\* ChessGame.updateGameState: err, the new _gameState (the old one if the
\* update throws before assigning) and the heap afterwards
UpdateGameState(h, b, player, state) ==
    With(IsCheckmate(h, b, player), LAMBDA mate :
      IF mate.err # "none"
      THEN [err |-> mate.err, gameState |-> state, heap |-> mate.heap]
      ELSE IF mate.val
      THEN [err |-> "none", gameState |-> CHECKMATE, heap |-> mate.heap]
      ELSE StalemateOrLater(mate.heap, b, player, state))

\* ChessGame.makeMove after this._board.makeMove(move) returned true:
\* moveCount++, switchPlayer(), updateGameState(), return true
AfterMove(h, b, player, state, count) ==
    With(UpdateGameState(h, b, SwitchPlayer(player), state), LAMBDA upd :
      GameOutcome(upd.err, upd.err = "none", upd.heap, b,
                  SwitchPlayer(player), upd.gameState, count + 1))

\* ChessGame.makeMove from the call of this._board.makeMove(move) on
MakeOwnMove(h, b, player, state, count, move) ==
    With(BoardMakeMove(h, b, move), LAMBDA made :
      IF made.err # "none" \/ ~made.val
      THEN GameOutcome(made.err, FALSE, made.heap, made.board,
                       player, state, count)
      ELSE AfterMove(made.heap, made.board, player, state, count))

\* a faulty ChessGame.makeMove, for comparison: no test of the game state
ChessGameMakeMove_NoStateGuard(h, b, player, state, count, move) ==
    IF move.fromPos.row = NaN
    THEN GameOutcome("TypeError", FALSE, h, b, player, state, count)
    ELSE IF GetPiece(b, move.fromPos) = 0
            \/ h[GetPiece(b, move.fromPos)].color # player
    THEN GameOutcome("none", FALSE, h, b, player, state, count)
    ELSE MakeOwnMove(h, b, player, state, count, move)

\* a faulty ChessGame.makeMove, for comparison: no test of the piece's colour
ChessGameMakeMove_AnyColour(h, b, player, state, count, move) ==
    IF state # ONGOING /\ state # CHECK
    THEN GameOutcome("none", FALSE, h, b, player, state, count)
    ELSE IF move.fromPos.row = NaN
    THEN GameOutcome("TypeError", FALSE, h, b, player, state, count)
    ELSE IF GetPiece(b, move.fromPos) = 0
    THEN GameOutcome("none", FALSE, h, b, player, state, count)
    ELSE MakeOwnMove(h, b, player, state, count, move)

\* ChessGame.makeMove
ChessGameMakeMove(h, b, player, state, count, move) ==
    IF state # ONGOING /\ state # CHECK
    THEN GameOutcome("none", FALSE, h, b, player, state, count)
    ELSE IF move.fromPos.row = NaN
    THEN \* this._board[NaN] is undefined, and indexing it throws
         GameOutcome("TypeError", FALSE, h, b, player, state, count)
    ELSE IF GetPiece(b, move.fromPos) = 0
            \/ h[GetPiece(b, move.fromPos)].color # player
    THEN GameOutcome("none", FALSE, h, b, player, state, count)
    ELSE MakeOwnMove(h, b, player, state, count, move)

\* promotionMap[promotion.toUpperCase()], undefined for any other key
PromotionMap(key) ==
    CASE key = <<"Q">> -> QUEEN
      [] key = <<"R">> -> ROOK
      [] key = <<"B">> -> BISHOP
      [] key = <<"N">> -> KNIGHT
      [] OTHER -> NoPromotion

\* a faulty makeMoveFromAlgebraic, for comparison: what makeMove throws is not
\* caught
Caught_Rethrown(made) == made

\* `catch (error) { return false; }` of ChessGame.makeMoveFromAlgebraic
Caught(made) ==
    IF made.err # "none" THEN [made EXCEPT !.err = "none", !.val = FALSE]
    ELSE made

\* ChessGame.makeMoveFromAlgebraic; promotion is <<>> when omitted or empty
MakeMoveFromAlgebraic(h, b, player, state, count, fromNotation, toNotation, promotion) ==
    LET fromPos == FromAlgebraic(fromNotation)
        toPos == FromAlgebraic(toNotation)
        promotionPiece == IF promotion # <<>>
                          THEN PromotionMap(ToUpperCase(promotion))
                          ELSE NoPromotion
    IN IF Threw(fromPos) \/ Threw(toPos)
       THEN GameOutcome("none", FALSE, h, b, player, state, count)
       ELSE Caught(ChessGameMakeMove(h, b, player, state, count,
                       Move(fromPos.val, toPos.val, promotionPiece,
                            FALSE, FALSE)))

\* ChessGame.getLegalMoves
GetLegalMoves(h, b, player) == GetAllLegalMoves(h, b, player)

\* ------------------------------------------------------------------ state
VARIABLES
    pieces,         \* the heap of Piece objects the game can reach
    board,          \* ChessGame._board: the fields of the Board object
    currentPlayer,  \* ChessGame._currentPlayer
    gameState,      \* ChessGame._gameState
    moveCount,      \* ChessGame._moveCount
    nCalls,         \* number of calls made on the game so far
    lastCall        \* the call that has just returned (or thrown), seen by the caller

vars == <<pieces, board, currentPlayer, gameState, moveCount, nCalls, lastCall>>

\* the most calls made on one game
MaxCalls == 2

\* ---------------------------------------------------------- initial states
\* new ChessGame()
FreshGame ==
    [pieces |-> InitialPieces, board |-> NewBoard, currentPlayer |-> WHITE,
     gameState |-> ONGOING, moveCount |-> 0]

\* A game whose board a caller has set up through the public accessors of a new
\* game (game.board.setPiece for every square, PieceFactory.createPiece and
\* Piece.markAsMoved): `placed` lists <<row, col, color, pieceType, hasMoved>>.
\* The private fields keep the values the constructors gave them.
SetUpGame(placed) ==
    [pieces |-> [i \in 1..Len(placed) |->
                    [color |-> placed[i][3], pieceType |-> placed[i][4],
                     hasMoved |-> placed[i][5]]],
     board |-> [NewBoard EXCEPT !.grid =
                    [row \in 0..7 |-> [col \in 0..7 |->
                        IF \E i \in 1..Len(placed) :
                              placed[i][1] = row /\ placed[i][2] = col
                        THEN CHOOSE i \in 1..Len(placed) :
                                 placed[i][1] = row /\ placed[i][2] = col
                        ELSE 0]]],
     currentPlayer |-> WHITE, gameState |-> ONGOING, moveCount |-> 0]

\* rook and king against king: Ra1-a8 mates
MateInOne ==
    SetUpGame(<< <<2, 6, WHITE, KING, TRUE>>, <<7, 0, WHITE, ROOK, FALSE>>,
                 <<0, 6, BLACK, KING, TRUE>> >>)

\* queen and king against king: Qg5-g6 stalemates
StalemateInOne ==
    SetUpGame(<< <<1, 5, WHITE, KING, TRUE>>, <<3, 6, WHITE, QUEEN, TRUE>>,
                 <<0, 7, BLACK, KING, TRUE>> >>)

\* a white rook pinned on the e-file before its unmoved king; pawns at home
Pinned ==
    SetUpGame(<< <<7, 4, WHITE, KING, FALSE>>, <<6, 4, WHITE, ROOK, FALSE>>,
                 <<0, 4, BLACK, ROOK, FALSE>>, <<0, 0, BLACK, KING, TRUE>>,
                 <<6, 7, WHITE, PAWN, FALSE>>, <<1, 7, BLACK, PAWN, FALSE>> >>)

\* king and knight against king, and the four plies that bring it back
Shuttle ==
    SetUpGame(<< <<7, 0, WHITE, KING, TRUE>>, <<7, 1, WHITE, KNIGHT, FALSE>>,
                 <<0, 7, BLACK, KING, TRUE>> >>)
ShuttlePlies ==
    << PlainMove(Position(7, 1), Position(5, 2)),
       PlainMove(Position(0, 7), Position(0, 6)),
       PlainMove(Position(5, 2), Position(7, 1)),
       PlainMove(Position(0, 6), Position(0, 7)) >>

\* The Shuttle game after its first k plies have been made with
\* ChessGame.makeMove (k < DrawHalfMoves): no pawn moves and nothing is captured,
\* so the half-move clock is k.
ShuttleAfter(k) ==
    [pieces |-> [i \in 1..3 |-> [Shuttle.pieces[i] EXCEPT !.hasMoved = (@ \/ k >= 1)]],
     board |->
        [grid |-> [row \in 0..7 |-> [col \in 0..7 |->
                     IF row = 7 /\ col = 0 THEN 1
                     ELSE IF <<row, col>> = (IF k % 4 \in {1, 2} THEN <<5, 2>>
                                             ELSE <<7, 1>>) THEN 2
                     ELSE IF <<row, col>> = (IF k % 4 \in {2, 3} THEN <<0, 6>>
                                             ELSE <<0, 7>>) THEN 3
                     ELSE 0]],
         moveHistory |-> [i \in 1..k |-> ShuttlePlies[((i - 1) % 4) + 1]],
         capturedPieces |-> <<>>,
         enPassantTarget |-> NullPosition,
         halfMoveClock |-> k,
         fullMoveNumber |-> 1 + (k \div 2)],
     currentPlayer |-> IF k % 2 = 0 THEN WHITE ELSE BLACK,
     gameState |-> ONGOING,
     moveCount |-> k]

\* one ply before the 50-move rule applies
NearDraw == ShuttleAfter(DrawHalfMoves - 1)

\* The Shuttle game played with a black rook added on b8, after its first k
\* plies (1 <= k < DrawHalfMoves): the rook has stayed where it was, and the
\* search for Black's legal moves has marked it as moved.
ShuttleRookAfter(k) ==
    [ShuttleAfter(k) EXCEPT
        !.pieces = Append(@, [color |-> BLACK, pieceType |-> ROOK,
                              hasMoved |-> TRUE]),
        !.board.grid[0][1] = 4]

\* one ply before the 50-move rule applies, with a check on offer: Rb8-a8
NearDrawCheck == ShuttleRookAfter(DrawHalfMoves - 1)

\* an unmoved white king between its two unmoved rooks, nothing in between
\* and nothing attacked
Castle ==
    SetUpGame(<< <<7, 4, WHITE, KING, FALSE>>, <<7, 7, WHITE, ROOK, FALSE>>,
                 <<7, 0, WHITE, ROOK, FALSE>>, <<0, 6, BLACK, KING, TRUE>> >>)

\* pawns about to promote (a7, with a knight to take on b8; b2), a pawn at
\* home on e2 and a black pawn on d4 beside the square it would pass
Pawns ==
    SetUpGame(<< <<7, 6, WHITE, KING, TRUE>>, <<0, 6, BLACK, KING, TRUE>>,
                 <<6, 4, WHITE, PAWN, FALSE>>, <<4, 3, BLACK, PAWN, TRUE>>,
                 <<1, 0, WHITE, PAWN, TRUE>>, <<0, 1, BLACK, KNIGHT, TRUE>>,
                 <<6, 1, BLACK, PAWN, TRUE>> >>)

\* both kings unmoved; Ra2-e2 gives a check that the queen can block on e7
Unmoved ==
    SetUpGame(<< <<7, 4, WHITE, KING, FALSE>>, <<6, 0, WHITE, ROOK, TRUE>>,
                 <<0, 4, BLACK, KING, FALSE>>, <<0, 3, BLACK, QUEEN, TRUE>> >>)

\* a white pawn set on a7 with Board.setPiece and never marked as moved
Seventh ==
    SetUpGame(<< <<7, 6, WHITE, KING, TRUE>>, <<0, 6, BLACK, KING, TRUE>>,
                 <<1, 0, WHITE, PAWN, FALSE>> >>)

SetUpGames == {FreshGame, MateInOne, StalemateInOne, Pinned, NearDraw,
               NearDrawCheck, Castle, Pawns, Unmoved, Seventh}

NoMove == PlainMove(NullPosition, NullPosition)
NoCall ==
    [op |-> "none", move |-> NoMove, color |-> "none", position |-> NullPosition,
     notation |-> <<>>, ret |-> "none", moves |-> <<>>]

Call(op, move, color, position, notation, ret, moves) ==
    [op |-> op, move |-> move, color |-> color, position |-> position,
     notation |-> notation, ret |-> ret, moves |-> moves]

\* what the caller sees of a boolean outcome
Ret(out) == IF out.err # "none" THEN out.err ELSE IF out.val THEN "true" ELSE "false"

StartsAs(g) ==
    /\ pieces = g.pieces
    /\ board = g.board
    /\ currentPlayer = g.currentPlayer
    /\ gameState = g.gameState
    /\ moveCount = g.moveCount
    /\ nCalls = 0
    /\ lastCall = NoCall

Init == StartsAs(FreshGame)

InitSetUp == \E g \in SetUpGames : StartsAs(g)

\* ------------------------------------------------------------------ inputs
Squares == {Position(row, col) : row \in 0..7, col \in 0..7}
Occupied(b) == {p \in Squares : GetPiece(b, p) # 0}
SeqToSet(seq) == {seq[i] : i \in 1..Len(seq)}

\* The moves a caller tries: for every piece the moves of its geometry on the
\* present board (a pawn on its home row as if it had never moved, and its two
\* diagonal steps flagged as en passant; a king's steps and its two castling
\* moves, flagged and unflagged), and one move from an empty square.
TriedFrom(h, b, p) ==
    LET piece == h[GetPiece(b, p)] IN
    CASE piece.pieceType = PAWN ->
            LET home == IF piece.color = WHITE THEN 6 ELSE 1
                tried == PawnMoves(h, b, [piece EXCEPT !.hasMoved = (p.row # home)], p)
            IN (IF Threw(tried) THEN {} ELSE SeqToSet(tried.val))
               \cup {Move(p, q, NoPromotion, FALSE, TRUE) :
                        q \in {sq \in Squares :
                                 /\ sq.row = p.row + (IF piece.color = WHITE
                                                      THEN 0 - 1 ELSE 1)
                                 /\ (sq.col = p.col + 1 \/ sq.col = p.col - 1)}}
      [] piece.pieceType = KING ->
            SeqToSet(StepMoves(h, b, piece, p, KingDirections, 1))
            \cup (IF p.col = 4
                  THEN {Move(p, Position(p.row, 6), NoPromotion, TRUE, FALSE),
                        Move(p, Position(p.row, 2), NoPromotion, TRUE, FALSE),
                        PlainMove(p, Position(p.row, 6))}
                  ELSE {})
      [] piece.pieceType = ROOK -> SeqToSet(RookMoves(h, b, piece, p))
      [] piece.pieceType = KNIGHT -> SeqToSet(KnightMoves(h, b, piece, p))
      [] piece.pieceType = BISHOP -> SeqToSet(BishopMoves(h, b, piece, p))
      [] piece.pieceType = QUEEN -> SeqToSet(QueenMoves(h, b, piece, p))

MoveInputs(h, b) ==
    UNION {TriedFrom(h, b, p) : p \in Occupied(b)}
    \cup (IF GetPiece(b, Position(4, 4)) = 0
          THEN {PlainMove(Position(4, 4), Position(3, 4))} ELSE {})

\* the letter makeMoveFromAlgebraic's caller gives for a promotion
PromotionLetter(promotionPiece) ==
    CASE promotionPiece = QUEEN -> <<"q">>
      [] promotionPiece = ROOK -> <<"R">>
      [] promotionPiece = BISHOP -> <<"b">>
      [] promotionPiece = KNIGHT -> <<"N">>
      [] OTHER -> <<>>

\* notations tried: those of the side to move's moves, four malformed ones,
\* and from each own piece to a square whose rank is not a digit
NotationInputs(h, b, player) ==
    {<<ToAlgebraic(m.fromPos), ToAlgebraic(m.toPos), PromotionLetter(m.promotionPiece)>> :
        m \in {n \in MoveInputs(h, b) :
                 GetPiece(b, n.fromPos) # 0 /\ h[GetPiece(b, n.fromPos)].color = player}}
    \cup {<< <<"i", "9">>, <<"e", "4">>, <<>> >>,
          << <<"e", "2">>, <<"e">>, <<>> >>,
          << <<"E", "2">>, <<"E", "4">>, <<>> >>,
          << <<"a", "?">>, <<"a", "3">>, <<>> >>}
    \cup {<<ToAlgebraic(p), <<"a", "?">>, <<>> >> :
             p \in {q \in Occupied(b) : h[GetPiece(b, q)].color = player}}

\* characters a notation is written with: files inside and outside a-h in
\* both cases, rank digits inside and outside 1-8, and two that are neither
NotationChars ==
    {"a", "b", "c", "d", "e", "f", "g", "h", "i", "A", "E", "H",
     "0", "1", "2", "3", "4", "5", "6", "7", "8", "9", "?", " "}

\* notations parsed: every string of two of these characters, and strings of
\* length 0, 1 and 3
Notations ==
    {<<c1, c2>> : c1 \in NotationChars, c2 \in NotationChars}
    \cup {<<>>, <<"e">>, <<"4">>, <<"e", "4", "4">>, <<"e", "4", " ">>, <<" ", "e", "4">>}

\* arguments a Position is constructed with
Coordinates == (0 - 2)..9 \cup {NaN}

\* squares whose attack is asked about: the kings', one in the middle, and the
\* squares beside the white king on its row
PositionInputs(h, b) ==
    ({FindKing(h, b, WHITE), FindKing(h, b, BLACK)} \ {NullPosition})
    \cup {Position(5, 4)}
    \cup {p \in Squares : p.row = FindKing(h, b, WHITE).row
                            /\ (p.col = FindKing(h, b, WHITE).col + 1
                                \/ p.col = FindKing(h, b, WHITE).col - 1)}
    \cup {p \in Squares : \E q \in Occupied(b) :
              /\ h[GetPiece(b, q)].pieceType = PAWN
              /\ p.col - q.col \in {0 - 1, 0, 1}
              /\ p.row - q.row \in {0 - 2, 0 - 1, 1, 2}
              /\ (p.col # q.col) => (p.row - q.row \in {0 - 1, 1})}

\* the squares handed to game.board.setPiece and to game.board.getPiece for
\* markAsMoved: the kings' squares, e2 and e3
EditSquares(h, b) ==
    ({FindKing(h, b, WHITE), FindKing(h, b, BLACK)} \ {NullPosition})
    \cup {Position(6, 4), Position(5, 4)}

\* the arguments of game.board.setPiece: null on an occupied square, to take
\* the piece off, or a piece got with game.board.getPiece on e3, to put it there
SetPieceInputs(h, b) ==
    {<<p, 0>> : p \in EditSquares(h, b) \cap Occupied(b)}
    \cup {<<Position(5, 4), GetPiece(b, q)>> : q \in EditSquares(h, b) \cap Occupied(b)}

\* ----------------------------------------------------------------- actions
\* a ChessGame operation returns with outcome `out`: the game's fields
\* afterwards and what the caller sees
GameBecomes(op, move, notation, out) ==
    /\ pieces' = out.pieces
    /\ board' = out.board
    /\ currentPlayer' = out.currentPlayer
    /\ gameState' = out.gameState
    /\ moveCount' = out.moveCount
    /\ lastCall' = Call(op, move, "none", NullPosition, notation, Ret(out), <<>>)

\* a query that returns a list of moves returns with outcome `out`
MovesReturned(op, color, out) ==
    /\ pieces' = out.heap
    /\ lastCall' = Call(op, NoMove, color, NullPosition, <<>>,
                        IF out.err # "none" THEN out.err ELSE "moves",
                        IF out.err # "none" THEN <<>> ELSE out.val)

\* a query that returns a boolean returns with outcome `out`
BooleanReturned(op, color, out) ==
    /\ pieces' = out.heap
    /\ lastCall' = Call(op, NoMove, color, NullPosition, <<>>, Ret(out), <<>>)

\* Board.makeMove returns with outcome `out`
BoardBecomes(move, out) ==
    /\ pieces' = out.heap
    /\ board' = out.board
    /\ lastCall' = Call("Board.makeMove", move, "none", NullPosition, <<>>,
                        Ret(out), <<>>)

Idle == lastCall.op = "none" /\ nCalls < MaxCalls

\* game.makeMove(move)
DoMakeMove(move) ==
    /\ Idle
    /\ GameBecomes("ChessGame.makeMove", move, <<>>,
                   ChessGameMakeMove(pieces, board, currentPlayer, gameState,
                                     moveCount, move))
    /\ nCalls' = nCalls + 1

\* game.makeMoveFromAlgebraic(from, to, promotion)
DoMakeMoveFromAlgebraic(notation) ==
    /\ Idle
    /\ GameBecomes("ChessGame.makeMoveFromAlgebraic", NoMove, notation,
                   MakeMoveFromAlgebraic(pieces, board, currentPlayer, gameState,
                                         moveCount, notation[1], notation[2],
                                         notation[3]))
    /\ nCalls' = nCalls + 1

\* game.getLegalMoves()
DoGetLegalMoves ==
    /\ Idle
    /\ MovesReturned("ChessGame.getLegalMoves", currentPlayer,
                     GetLegalMoves(pieces, board, currentPlayer))
    /\ nCalls' = nCalls + 1
    /\ UNCHANGED <<board, currentPlayer, gameState, moveCount>>

\* game.board.makeMove(move)
DoBoardMakeMove(move) ==
    /\ Idle
    /\ BoardBecomes(move, BoardMakeMove(pieces, board, move))
    /\ nCalls' = nCalls + 1
    /\ UNCHANGED <<currentPlayer, gameState, moveCount>>

\* game.board.getAllLegalMoves(color)
DoGetAllLegalMoves(color) ==
    /\ Idle
    /\ MovesReturned("Board.getAllLegalMoves", color,
                     GetAllLegalMoves(pieces, board, color))
    /\ nCalls' = nCalls + 1
    /\ UNCHANGED <<board, currentPlayer, gameState, moveCount>>

\* game.board.isInCheck(color)
DoIsInCheck(color) ==
    /\ Idle
    /\ lastCall' = Call("Board.isInCheck", NoMove, color, NullPosition, <<>>,
                        Ret(IsInCheck(pieces, board, color)), <<>>)
    /\ nCalls' = nCalls + 1
    /\ UNCHANGED <<pieces, board, currentPlayer, gameState, moveCount>>

\* game.board.isPositionUnderAttack(position, byColor)
DoIsPositionUnderAttack(position, byColor) ==
    /\ Idle
    /\ lastCall' = Call("Board.isPositionUnderAttack", NoMove, byColor, position,
                        <<>>, Ret(IsPositionUnderAttack(pieces, board, position,
                                                        byColor)), <<>>)
    /\ nCalls' = nCalls + 1
    /\ UNCHANGED <<pieces, board, currentPlayer, gameState, moveCount>>

\* game.board.setPiece(position, piece)
DoSetPiece(position, piece) ==
    /\ Idle
    /\ board' = SetPiece(board, position, piece)
    /\ lastCall' = Call("Board.setPiece", NoMove, "none", position, <<>>,
                        "undefined", <<>>)
    /\ nCalls' = nCalls + 1
    /\ UNCHANGED <<pieces, currentPlayer, gameState, moveCount>>

\* game.board.getPiece(position).markAsMoved()
DoMarkAsMoved(position) ==
    /\ Idle
    /\ GetPiece(board, position) # 0
    /\ pieces' = MarkAsMoved(pieces, GetPiece(board, position))
    /\ lastCall' = Call("Piece.markAsMoved", NoMove, "none", position, <<>>,
                        "undefined", <<>>)
    /\ nCalls' = nCalls + 1
    /\ UNCHANGED <<board, currentPlayer, gameState, moveCount>>

\* game.board.isCheckmate(color)
DoIsCheckmate(color) ==
    /\ Idle
    /\ BooleanReturned("Board.isCheckmate", color,
                       IsCheckmate(pieces, board, color))
    /\ nCalls' = nCalls + 1
    /\ UNCHANGED <<board, currentPlayer, gameState, moveCount>>

\* game.board.isStalemate(color)
DoIsStalemate(color) ==
    /\ Idle
    /\ BooleanReturned("Board.isStalemate", color,
                       IsStalemate(pieces, board, color))
    /\ nCalls' = nCalls + 1
    /\ UNCHANGED <<board, currentPlayer, gameState, moveCount>>

\* the caller has looked at the result and is ready for its next call
Return ==
    /\ lastCall.op # "none"
    /\ lastCall' = NoCall
    /\ UNCHANGED <<pieces, board, currentPlayer, gameState, moveCount, nCalls>>

\* Position.fromAlgebraic(notation)
DoFromAlgebraic(notation) ==
    /\ Idle
    /\ With(FromAlgebraic(notation), LAMBDA parsed :
         lastCall' = Call("Position.fromAlgebraic", NoMove, "none",
                          IF Threw(parsed) THEN NullPosition ELSE parsed.val,
                          notation,
                          IF Threw(parsed) THEN parsed.err ELSE "position", <<>>))
    /\ nCalls' = nCalls + 1
    /\ UNCHANGED <<pieces, board, currentPlayer, gameState, moveCount>>

\* position.toAlgebraic()
DoToAlgebraic(position) ==
    /\ Idle
    /\ lastCall' = Call("Position.toAlgebraic", NoMove, "none", position,
                        ToAlgebraic(position), "string", <<>>)
    /\ nCalls' = nCalls + 1
    /\ UNCHANGED <<pieces, board, currentPlayer, gameState, moveCount>>

\* new Position(row, col); the arguments are kept in the call's notation field
DoNewPosition(row, col) ==
    /\ Idle
    /\ With(NewPosition(row, col), LAMBDA built :
         lastCall' = Call("new Position", NoMove, "none",
                          IF Threw(built) THEN NullPosition ELSE built.val,
                          <<row, col>>,
                          IF Threw(built) THEN built.err ELSE "position", <<>>))
    /\ nCalls' = nCalls + 1
    /\ UNCHANGED <<pieces, board, currentPlayer, gameState, moveCount>>

\* the operations of Position
NextPosition ==
    \/ \E notation \in Notations : DoFromAlgebraic(notation)
    \/ \E position \in Squares : DoToAlgebraic(position)
    \/ \E row \in Coordinates, col \in Coordinates : DoNewPosition(row, col)
    \/ Return

\* the operations of ChessGame
NextGame ==
    \/ \E move \in MoveInputs(pieces, board) : DoMakeMove(move)
    \/ \E notation \in NotationInputs(pieces, board, currentPlayer) :
          DoMakeMoveFromAlgebraic(notation)
    \/ DoGetLegalMoves
    \/ Return

\* the operations of ChessGame and of its Board
Next ==
    \/ \E move \in MoveInputs(pieces, board) : DoMakeMove(move)
    \/ \E notation \in NotationInputs(pieces, board, currentPlayer) :
          DoMakeMoveFromAlgebraic(notation)
    \/ DoGetLegalMoves
    \/ \E move \in MoveInputs(pieces, board) : DoBoardMakeMove(move)
    \/ \E color \in Color : DoGetAllLegalMoves(color)
    \/ \E color \in Color : DoIsInCheck(color)
    \/ \E position \in PositionInputs(pieces, board), color \in Color :
          DoIsPositionUnderAttack(position, color)
    \/ \E color \in Color : DoIsCheckmate(color)
    \/ \E color \in Color : DoIsStalemate(color)
    \/ \E input \in SetPieceInputs(pieces, board) : DoSetPiece(input[1], input[2])
    \/ \E position \in EditSquares(pieces, board) : DoMarkAsMoved(position)
    \/ Return

\* the operations of the Board of the game
NextBoard ==
    \/ \E move \in MoveInputs(pieces, board) : DoBoardMakeMove(move)
    \/ \E color \in Color : DoGetAllLegalMoves(color)
    \/ \E color \in Color : DoIsInCheck(color)
    \/ \E position \in PositionInputs(pieces, board), color \in Color :
          DoIsPositionUnderAttack(position, color)
    \/ \E color \in Color : DoIsCheckmate(color)
    \/ \E color \in Color : DoIsStalemate(color)
    \/ \E input \in SetPieceInputs(pieces, board) : DoSetPiece(input[1], input[2])
    \/ \E position \in EditSquares(pieces, board) : DoMarkAsMoved(position)
    \/ Return

\* a new game, every operation
Spec == Init /\ [][Next]_vars

\* a new or set-up game, the operations of ChessGame
SpecGame == InitSetUp /\ [][NextGame]_vars

\* a new or set-up game, the operations of its Board
SpecBoard == InitSetUp /\ [][NextBoard]_vars

\* Position alone: its constructor and its two conversions
SpecPosition == Init /\ [][NextPosition]_vars

\* ------------------------------------------------------------- properties
\* The squares the piece on fromPos attacks by the rules of chess, whatever
\* the hasMoved flags are: a pawn its two forward diagonals, any other piece
\* the squares its geometry reaches.
Attacks(h, b, fromPos) ==
    LET piece == h[GetPiece(b, fromPos)] IN
    CASE piece.pieceType = PAWN ->
            {p \in Squares :
                /\ p.row = fromPos.row + (IF piece.color = WHITE THEN 0 - 1 ELSE 1)
                /\ (p.col = fromPos.col + 1 \/ p.col = fromPos.col - 1)}
      [] piece.pieceType = KING ->
            {m.toPos : m \in SeqToSet(StepMoves(h, b, piece, fromPos,
                                                KingDirections, 1))}
      [] piece.pieceType = ROOK ->
            {m.toPos : m \in SeqToSet(RookMoves(h, b, piece, fromPos))}
      [] piece.pieceType = KNIGHT ->
            {m.toPos : m \in SeqToSet(KnightMoves(h, b, piece, fromPos))}
      [] piece.pieceType = BISHOP ->
            {m.toPos : m \in SeqToSet(BishopMoves(h, b, piece, fromPos))}
      [] piece.pieceType = QUEEN ->
            {m.toPos : m \in SeqToSet(QueenMoves(h, b, piece, fromPos))}

\* the squares of the kings of a colour
Kings(h, b, color) ==
    {p \in Occupied(b) : /\ h[GetPiece(b, p)].pieceType = KING
                         /\ h[GetPiece(b, p)].color = color}

\* a king of the colour stands on a square an opponent's piece attacks
KingAttacked(h, b, color) ==
    \E k \in Kings(h, b, color), p \in Occupied(b) :
        /\ h[GetPiece(b, p)].color # color
        /\ k \in Attacks(h, b, p)

GameCalls == {"ChessGame.makeMove", "ChessGame.makeMoveFromAlgebraic"}
GameFields == <<pieces, board, currentPlayer, gameState, moveCount>>
Terminal == {CHECKMATE, STALEMATE, DRAW}

\* the objects that the moves history[i..] relocate, replayed on `grid`
RECURSIVE Relocated(_, _, _)
Relocated(grid, history, i) ==
    IF i > Len(history) THEN {}
    ELSE LET move == history[i]
             row == move.fromPos.row
             id == grid[row][move.fromPos.col]
             rookCol == IF move.toPos.col = 6 THEN 7 ELSE 0
             rookTo == IF move.toPos.col = 6 THEN 5 ELSE 3
             g1 == [grid EXCEPT ![row][move.fromPos.col] = 0,
                                ![move.toPos.row][move.toPos.col] = id]
             g2 == IF move.isCastling
                   THEN [g1 EXCEPT ![row][rookCol] = 0,
                                   ![row][rookTo] = grid[row][rookCol]]
                   ELSE IF move.isEnPassant
                   THEN [g1 EXCEPT ![row][move.toPos.col] = 0]
                   ELSE g1
         IN {id} \cup (IF move.isCastling THEN {grid[row][rookCol]} ELSE {})
                 \cup Relocated(g2, history, i + 1)

E2 == <<"e", "2">>
E4 == <<"e", "4">>

\* C1: on a new game the first call of the demonstration,
\* makeMoveFromAlgebraic("e2", "e4"), returns true, hands the turn to Black and
\* leaves the game Ongoing.
C1_OpeningMoveAccepted ==
    (/\ nCalls = 1
     /\ lastCall.op = "ChessGame.makeMoveFromAlgebraic"
     /\ lastCall.notation = <<E2, E4, <<>> >>)
    => (/\ lastCall.ret = "true"
        /\ currentPlayer = BLACK
        /\ gameState = ONGOING
        /\ Len(board.moveHistory) = 1)

\* C2: every call of isInCheck, isPositionUnderAttack, getAllLegalMoves and
\* makeMove returns: none ends in the RangeError of an exhausted call stack.
C2_EveryCallReturns == lastCall.ret # "RangeError"

\* C3: on a new board getAllLegalMoves(White) returns exactly 20 moves.
C3_TwentyOpeningMoves ==
    (/\ nCalls = 1
     /\ lastCall.op = "Board.getAllLegalMoves"
     /\ lastCall.color = WHITE)
    => (lastCall.ret = "moves" /\ Len(lastCall.moves) = 20)

\* C4: on a board where c has one king, every move getAllLegalMoves(c) returns,
\* executed on a copy of the board, leaves the king of c on a square that is
\* not attacked.  (A board on which setPiece has put the king's reference on a
\* second square has no square that is "c's king": findKing answers the first
\* in row-major order and the other may step into an attack.)
C4_LegalMovesKeepKingSafe ==
    (/\ lastCall.op = "Board.getAllLegalMoves" /\ lastCall.ret = "moves"
     /\ Cardinality(Kings(pieces, board, lastCall.color)) = 1)
    => \A i \in 1..Len(lastCall.moves) :
          LET executed == ExecuteMove(pieces, DeepCopy(board), lastCall.moves[i])
          IN /\ executed.err = "none"
             /\ ~KingAttacked(executed.heap, executed.board, lastCall.color)

\* the same on every board: every move getAllLegalMoves(c) returns, executed
\* on a copy of the board, leaves no king of c on an attacked square
C4_LegalMovesKeepKingSafeOnEveryBoard ==
    (lastCall.op = "Board.getAllLegalMoves" /\ lastCall.ret = "moves")
    => \A i \in 1..Len(lastCall.moves) :
          LET executed == ExecuteMove(pieces, DeepCopy(board), lastCall.moves[i])
          IN /\ executed.err = "none"
             /\ ~KingAttacked(executed.heap, executed.board, lastCall.color)

\* getAllLegalMoves(White) has returned on the board with the pinned rook: the
\* rook's capture along the file is in the list, its step aside is not
C4_PinnedRookFiltered ==
    /\ lastCall.op = "Board.getAllLegalMoves"
    /\ lastCall.ret = "moves"
    /\ lastCall.color = WHITE
    /\ board = Pinned.board
    /\ PlainMove(Position(6, 4), Position(0, 4)) \in SeqToSet(lastCall.moves)
    /\ PlainMove(Position(6, 4), Position(6, 3)) \notin SeqToSet(lastCall.moves)

\* C5: each colour has exactly one king on the board, and when a move has been
\* accepted no king of the side that made it stands on an attacked square.
C5_OneKingAndMoverSafe ==
    /\ \A c \in Color : Cardinality(Kings(pieces, board, c)) = 1
    /\ (lastCall.op \in GameCalls /\ lastCall.ret = "true")
       => ~KingAttacked(pieces, board, SwitchPlayer(currentPlayer))

\* the pinned rook's move along the file has been accepted as the first move
C5_PinnedRookAdvanced ==
    /\ nCalls = 1
    /\ lastCall.op = "ChessGame.makeMove"
    /\ lastCall.ret = "true"
    /\ lastCall.move = PlainMove(Position(6, 4), Position(5, 4))
    /\ currentPlayer = BLACK
    /\ GetPiece(board, Position(5, 4)) # 0

\* C6: a Board.makeMove that returns false leaves the board as it was, the
\* hasMoved flags of the pieces included.
C6_RejectedMoveChangesNothing ==
    [][(lastCall'.op = "Board.makeMove" /\ lastCall'.ret = "false")
       => UNCHANGED <<pieces, board>>]_vars

\* C7: getAllLegalMoves leaves the board as it was, the hasMoved flags of the
\* pieces included.
C7_LegalMovesChangeNothing ==
    [][(lastCall'.op = "Board.getAllLegalMoves" /\ lastCall'.ret = "moves")
       => UNCHANGED <<pieces, board>>]_vars

\* C8: a piece of a new game has hasMoved set only if a move of the history
\* relocated it or a promotion created it.
C8_FlagsFollowHistory ==
    \A id \in 1..Len(pieces) :
        pieces[id].hasMoved
        => \/ id > Len(InitialPieces)
           \/ id \in Relocated(InitialGrid, board.moveHistory, 1)

\* C9: once the game is in Checkmate, Stalemate or Draw, the game state, the
\* side to move, the move count and the board never change again, and a call
\* of makeMove (directly or via makeMoveFromAlgebraic) returns false and leaves
\* the pieces as they are.
C9_TerminalStatesAbsorb ==
    [][(gameState \in Terminal)
       => (/\ UNCHANGED <<board, currentPlayer, gameState, moveCount>>
           /\ (lastCall'.op \in GameCalls
               => (lastCall'.ret = "false" /\ UNCHANGED pieces)))]_vars

\* the second call, ChessGame.makeMove of a knight move of the side to move,
\* was made on the game drawn by the first call, and returned false
C9_MoveRefusedAfterDraw ==
    /\ nCalls = 2
    /\ gameState = DRAW
    /\ lastCall.op = "ChessGame.makeMove"
    /\ lastCall.ret = "false"
    /\ GetPiece(board, lastCall.move.fromPos) # 0
    /\ pieces[GetPiece(board, lastCall.move.fromPos)].color = currentPlayer
    /\ pieces[GetPiece(board, lastCall.move.fromPos)].pieceType = KNIGHT

\* C10: ChessGame.makeMove from an empty square, or from a square holding a
\* piece of the side not to move, returns false and changes no field of the game.
C10_NotOwnPieceRejected ==
    [][(/\ lastCall'.op = "ChessGame.makeMove"
        /\ \/ GetPiece(board, lastCall'.move.fromPos) = 0
           \/ pieces[GetPiece(board, lastCall'.move.fromPos)].color
                 # currentPlayer)
       => (lastCall'.ret = "false" /\ UNCHANGED GameFields)]_vars

\* in a game still going on, makeMove of a move the opponent's king could make
\* on its own turn has returned false
C10_OpponentKingRefused ==
    /\ lastCall.op = "ChessGame.makeMove"
    /\ lastCall.ret = "false"
    /\ gameState = ONGOING
    /\ GetPiece(board, lastCall.move.fromPos) # 0
    /\ pieces[GetPiece(board, lastCall.move.fromPos)].color # currentPlayer
    /\ pieces[GetPiece(board, lastCall.move.fromPos)].pieceType = KING
    /\ board.grid = MateInOne.board.grid

\* C11: the side to move flips on every makeMove / makeMoveFromAlgebraic that
\* returns true and is unchanged by every one that returns false.
C11_TurnFollowsAcceptance ==
    [][(lastCall'.op \in GameCalls)
       => /\ (lastCall'.ret = "true")
             => (currentPlayer' = SwitchPlayer(currentPlayer))
          /\ (lastCall'.ret = "false") => (currentPlayer' = currentPlayer)]_vars

\* the moves the geometry of the piece on fromPos allows (a king's are its
\* steps to adjacent squares)
PseudoMoves(h, b, fromPos) ==
    LET piece == h[GetPiece(b, fromPos)] IN
    CASE piece.pieceType = PAWN ->
            LET pushed == PawnMoves(h, b, piece, fromPos)
            IN IF Threw(pushed) THEN {} ELSE SeqToSet(pushed.val)
      [] piece.pieceType = KING ->
            SeqToSet(StepMoves(h, b, piece, fromPos, KingDirections, 1))
      [] piece.pieceType = ROOK -> SeqToSet(RookMoves(h, b, piece, fromPos))
      [] piece.pieceType = KNIGHT -> SeqToSet(KnightMoves(h, b, piece, fromPos))
      [] piece.pieceType = BISHOP -> SeqToSet(BishopMoves(h, b, piece, fromPos))
      [] piece.pieceType = QUEEN -> SeqToSet(QueenMoves(h, b, piece, fromPos))

\* some piece of the colour has a move after which no king of the colour is
\* attacked
HasLegalMove(h, b, color) ==
    \E p \in Occupied(b) :
        /\ h[GetPiece(b, p)].color = color
        /\ \E m \in PseudoMoves(h, b, p) :
              LET executed == ExecuteMove(h, DeepCopy(b), m)
              IN /\ executed.err = "none"
                 /\ ~KingAttacked(executed.heap, executed.board, color)

\* the game state the rules give a position with `color` to move
StateByRule(h, b, color) ==
    IF KingAttacked(h, b, color) /\ ~HasLegalMove(h, b, color) THEN CHECKMATE
    ELSE IF ~HasLegalMove(h, b, color) THEN STALEMATE
    ELSE IF KingAttacked(h, b, color) THEN CHECK
    ELSE IF b.halfMoveClock >= 100 THEN DRAW
    ELSE ONGOING

\* C12: after a successful makeMove the game state is Checkmate if the side
\* to move is in check without a legal move, else Stalemate if it has no legal
\* move, else Check if it is in check, else Draw if the half-move clock is at
\* least 100, else Ongoing.
C12_StateByPriority ==
    (lastCall.op \in GameCalls /\ lastCall.ret = "true")
    => gameState = StateByRule(pieces, board, currentPlayer)

\* the rook's move to the back rank has been accepted and has mated
C12_MatedByRook ==
    /\ lastCall.op = "ChessGame.makeMove"
    /\ lastCall.ret = "true"
    /\ lastCall.move = PlainMove(Position(7, 0), Position(0, 0))
    /\ gameState = CHECKMATE
    /\ KingAttacked(pieces, board, BLACK)

\* C13 as stated: whenever a successful makeMove leaves the half-move clock at
\* 100 or more, the game state is Draw.
C13_LimitMeansDraw ==
    (lastCall.op \in GameCalls /\ lastCall.ret = "true"
     /\ board.halfMoveClock >= 100)
    => gameState = DRAW

\* C13 amended: whenever a successful makeMove leaves the half-move clock at
\* 100 or more, the game state is Draw unless the side to move is in check or
\* has no legal move (then it is Check, Checkmate or Stalemate).
C13_LimitMeansDrawUnlessCheck ==
    (lastCall.op \in GameCalls /\ lastCall.ret = "true"
     /\ board.halfMoveClock >= 100)
    => IF KingAttacked(pieces, board, currentPlayer)
          \/ ~HasLegalMove(pieces, board, currentPlayer)
       THEN gameState \in {CHECK, CHECKMATE, STALEMATE}
       ELSE gameState = DRAW

\* the hundredth quiet half-move has been accepted and the game is drawn
C13_DrawnAtLimit ==
    /\ lastCall.op \in GameCalls
    /\ lastCall.ret = "true"
    /\ board.halfMoveClock = 100
    /\ Len(board.moveHistory) = 100
    /\ gameState = DRAW

\* a step that executes a move on the live board, and the move it executes
Executes == Len(board'.moveHistory) = Len(board.moveHistory) + 1
Executed == board'.moveHistory[Len(board'.moveHistory)]

\* C14: after every executed move the half-move clock is 0 if a pawn made the
\* move (promotions included) or the move captured a piece, and otherwise its
\* previous value plus 1.
C14_ClockResetsOnPawnOrCapture ==
    [][Executes
       => board'.halfMoveClock =
             IF \/ pieces[GetPiece(board, Executed.fromPos)].pieceType = PAWN
                \/ GetPiece(board, Executed.toPos) # 0
                \/ Executed.isEnPassant
             THEN 0
             ELSE board.halfMoveClock + 1]_vars

\* C15: the full-move number is 1 before any move is executed, increases by 1
\* with each executed Black move and is unchanged by each executed White move
\* and by every step that executes no move.
C15_FullMoveCountsBlackMoves ==
    /\ (board.moveHistory = <<>>) => (board.fullMoveNumber = 1)
    /\ [][board'.fullMoveNumber =
             IF Executes
                /\ pieces[GetPiece(board, Executed.fromPos)].color = BLACK
             THEN board.fullMoveNumber + 1
             ELSE board.fullMoveNumber]_vars

\* Board.makeMove has executed a Black move as the first move of the board
C15_BlackMoveCounted ==
    /\ lastCall.op = "Board.makeMove"
    /\ lastCall.ret = "true"
    /\ Len(board.moveHistory) = 1
    /\ pieces[GetPiece(board, lastCall.move.toPos)].color = BLACK
    /\ board.fullMoveNumber = 2

\* some piece of the other colour attacks the square, by the rules of chess
SquareAttacked(h, b, position, color) ==
    \E p \in Occupied(b) :
        /\ h[GetPiece(b, p)].color # color
        /\ position \in Attacks(h, b, p)

\* The castling preconditions of the king on k towards the rook on column
\* rookCol (7 kingside, 0 queenside): king unmoved and not attacked, an unmoved
\* rook of its colour on that column, nothing strictly between them, and the
\* two squares the king passes through and lands on not attacked.
CastlingReady(h, b, k, rookCol) ==
    LET king == h[GetPiece(b, k)]
        rook == GetPiece(b, Position(k.row, rookCol))
        step == IF rookCol > k.col THEN 1 ELSE 0 - 1
    IN /\ king.pieceType = KING
       /\ ~king.hasMoved
       /\ k.col = 4
       /\ ~SquareAttacked(h, b, k, king.color)
       /\ rook # 0
       /\ h[rook].pieceType = ROOK
       /\ h[rook].color = king.color
       /\ ~h[rook].hasMoved
       /\ \A col \in 0..7 :
              ((col - k.col) * step > 0 /\ (rookCol - col) * step > 0)
                  => GetPiece(b, Position(k.row, col)) = 0
       /\ \A n \in 1..2 :
              ~SquareAttacked(h, b, Position(k.row, k.col + n * step), king.color)

\* the castling move of the king on k towards the rook on column rookCol
CastlingMove(k, rookCol) ==
    Move(k, Position(k.row, IF rookCol = 7 THEN 6 ELSE 2), NoPromotion, TRUE, FALSE)

\* the king's pseudo-legal moves contain the move and Board.makeMove accepts it
OfferedAndAccepted(h, b, move) ==
    /\ With(GetPossibleMoves(h, b, move.fromPos), LAMBDA possibleMoves :
           /\ ~Threw(possibleMoves)
           /\ move \in SeqToSet(possibleMoves.val))
    /\ With(BoardMakeMove(h, b, move), LAMBDA out :
           out.err = "none" /\ out.val)

\* C16: when all castling preconditions hold for a king, its pseudo-legal moves
\* contain the castling-flagged move to column 6 (kingside) resp. column 2
\* (queenside) and Board.makeMove accepts that move.
C16_CastlingOfferedWhenReady ==
    \A k \in Occupied(board), rookCol \in {0, 7} :
        CastlingReady(pieces, board, k, rookCol)
            => OfferedAndAccepted(pieces, board, CastlingMove(k, rookCol))

\* No executed move is a castling move: King.getCastlingMoves offers none (see
\* C16), and Move.equals compares the castling flag, so Board.makeMove accepts
\* none and Board.executeCastling never runs.
NoCastlingExecuted ==
    \A i \in 1..Len(board.moveHistory) : ~board.moveHistory[i].isCastling

\* the move is a pawn's two-square advance along its file, the pawn now
\* standing on the move's destination
IsDoublePush(h, b, move) ==
    /\ GetPiece(b, move.toPos) # 0
    /\ h[GetPiece(b, move.toPos)].pieceType = PAWN
    /\ move.fromPos.col = move.toPos.col
    /\ (move.fromPos.row - move.toPos.row = 2 \/ move.toPos.row - move.fromPos.row = 2)

\* the square a two-square advance skipped
Skipped(move) ==
    Position((move.fromPos.row + move.toPos.row) \div 2, move.toPos.col)

\* the en-passant move `move` answers the double push `last` of the opponent,
\* from the square beside the advanced pawn, onto the empty skipped square
AnswersDoublePush(h, b, move, last) ==
    /\ IsDoublePush(h, b, last)
    /\ h[GetPiece(b, move.fromPos)].pieceType = PAWN
    /\ h[GetPiece(b, move.fromPos)].color # h[GetPiece(b, last.toPos)].color
    /\ move.fromPos.row = last.toPos.row
    /\ (move.fromPos.col - last.toPos.col = 1 \/ last.toPos.col - move.fromPos.col = 1)
    /\ move.toPos = Skipped(last)
    /\ GetPiece(b, move.toPos) = 0

\* board b2 is board b after the pawn on move.fromPos took the pawn beside it
\* en passant: the capturer on the destination, its origin and the victim's
\* square (origin row, destination column) empty, the victim added once to the
\* captured list, every other square as before
TakenEnPassant(b, b2, move) ==
    LET victimPos == Position(move.fromPos.row, move.toPos.col) IN
    /\ GetPiece(b, victimPos) # 0
    /\ GetPiece(b2, move.toPos) = GetPiece(b, move.fromPos)
    /\ GetPiece(b2, move.fromPos) = 0
    /\ GetPiece(b2, victimPos) = 0
    /\ b2.capturedPieces = Append(b.capturedPieces, GetPiece(b, victimPos))
    /\ \A p \in Squares \ {move.toPos, move.fromPos, victimPos} :
           GetPiece(b2, p) = GetPiece(b, p)

\* C18: in games played through ChessGame, an en-passant move is accepted only
\* on the ply right after the opponent's two-square pawn advance, only by a
\* pawn standing beside the advanced pawn on an adjacent file; executing it
\* moves the capturer to the skipped square, which held no piece, and removes
\* exactly the advanced pawn at (origin row, destination column), adding it
\* once to the captured list.
C18_EnPassantOnlyAfterDoublePush ==
    [][(Executes /\ Executed.isEnPassant) =>
          /\ board.moveHistory # <<>>
          /\ AnswersDoublePush(pieces, board, Executed,
                               board.moveHistory[Len(board.moveHistory)])
          /\ Position(Executed.fromPos.row, Executed.toPos.col)
                = board.moveHistory[Len(board.moveHistory)].toPos
          /\ TakenEnPassant(board, board', Executed)]_vars

\* a game call has accepted an en-passant capture: the capturer stands on the
\* destination and one piece, a pawn of the other colour, is captured
C18_TakenEnPassant ==
    /\ lastCall.op \in GameCalls
    /\ lastCall.ret = "true"
    /\ board.moveHistory # <<>>
    /\ board.moveHistory[Len(board.moveHistory)].isEnPassant
    /\ Len(board.capturedPieces) = 1
    /\ pieces[board.capturedPieces[1]].pieceType = PAWN
    /\ pieces[GetPiece(board, board.moveHistory[Len(board.moveHistory)].toPos)].pieceType = PAWN

\* the move about to be executed on board b is a pawn's two-square advance
AdvancesTwo(h, b, move) ==
    /\ h[GetPiece(b, move.fromPos)].pieceType = PAWN
    /\ (move.fromPos.row - move.toPos.row = 2 \/ move.toPos.row - move.fromPos.row = 2)

\* C19: after each executed move the en-passant target is the square the pawn
\* skipped if the move was a two-square pawn advance and none otherwise (so a
\* target lasts one ply unless the next ply is a double push too); a step that
\* executes no move leaves the target unchanged.
C19_TargetFollowsLastMove ==
    [][board'.enPassantTarget =
          IF Executes
          THEN IF AdvancesTwo(pieces, board, Executed)
               THEN Skipped(Executed)
               ELSE NullPosition
          ELSE board.enPassantTarget]_vars

\* the pawn's advance e2-e4 set a target and the next executed move, not a
\* double push, cleared it
C19_TargetGoneAfterNextPly ==
    /\ lastCall.ret = "true"
    /\ Len(board.moveHistory) = 2
    /\ board.moveHistory[1].fromPos = Position(6, 4)
    /\ board.moveHistory[1].toPos = Position(4, 4)
    /\ board.moveHistory[2].fromPos.row - board.moveHistory[2].toPos.row \in {0 - 1, 0, 1}
    /\ board.enPassantTarget = NullPosition

\* the opponent's back rank for a pawn of the colour
BackRank(color) == IF color = WHITE THEN 0 ELSE 7

\* The back-rank squares the pawn on p can move to by the rules of chess: the
\* square straight ahead if it is empty, a diagonal square ahead if an
\* opponent's piece stands on it.
BackRankDestinations(h, b, p) ==
    LET color == h[GetPiece(b, p)].color IN
    {q \in Squares :
        /\ q.row = BackRank(color)
        /\ q.row - p.row = (IF color = WHITE THEN 0 - 1 ELSE 1)
        /\ \/ q.col = p.col /\ GetPiece(b, q) = 0
           \/ /\ (q.col - p.col = 1 \/ p.col - q.col = 1)
              /\ GetPiece(b, q) # 0
              /\ h[GetPiece(b, q)].color # color}

\* the moves of the list that land on position, in the order of the list
MovesTo(moves, position) ==
    SelectSeq(moves, LAMBDA m : m.toPos = position)

\* what the generator returned for the pawn on p promotes on every back-rank
\* destination, and holds no other move onto the back rank
PromotesOnBackRank(h, b, p, generated) ==
    /\ ~Threw(generated)
    /\ \A q \in BackRankDestinations(h, b, p) :
           MovesTo(generated.val, q)
               = << Move(p, q, QUEEN, FALSE, FALSE), Move(p, q, ROOK, FALSE, FALSE),
                    Move(p, q, BISHOP, FALSE, FALSE), Move(p, q, KNIGHT, FALSE, FALSE) >>
    /\ \A i \in 1..Len(generated.val) :
           (generated.val[i].toPos.row = BackRank(h[GetPiece(b, p)].color))
               => /\ generated.val[i].promotionPiece # NoPromotion
                  /\ generated.val[i].toPos \in BackRankDestinations(h, b, p)

\* C20: for every pawn move (push or diagonal capture) that lands on the
\* opponent's back rank, the pawn's move generator emits exactly four promotion
\* moves for that destination, in the order Queen, Rook, Bishop, Knight, and no
\* unflagged move to that destination.
C20_FourPromotionsOnBackRank ==
    \A p \in Occupied(board) :
        (pieces[GetPiece(board, p)].pieceType = PAWN)
            => PromotesOnBackRank(pieces, board, p,
                                  PawnMoves(pieces, board, pieces[GetPiece(board, p)], p))

\* what `inCheck && legal.length === 0` comes to, given the outcomes of
\* isInCheck and getAllLegalMoves: the error of the first of the two that
\* throws when it is evaluated, the boolean otherwise (wanted is the answer of
\* isInCheck that lets the right-hand side be evaluated)
CheckAndNoMoves(chk, legal, wanted) ==
    IF Threw(chk) THEN chk.err
    ELSE IF chk.val # wanted THEN "false"
    ELSE IF legal.err # "none" THEN legal.err
    ELSE IF Len(legal.val) = 0 THEN "true" ELSE "false"

\* isCheckmate and isStalemate of one colour against isInCheck and
\* getAllLegalMoves of the same position
MateAndStalemateAsDefined(chk, legal, mate, stale) ==
    /\ Ret(mate) = CheckAndNoMoves(chk, legal, TRUE)
    /\ Ret(stale) = CheckAndNoMoves(chk, legal, FALSE)
    /\ ~(Ret(mate) = "true" /\ Ret(stale) = "true")

\* C21: in every position and for every colour c, isCheckmate(c) equals
\* isInCheck(c) and getAllLegalMoves(c) empty, isStalemate(c) equals not
\* isInCheck(c) and getAllLegalMoves(c) empty, and the two are never both true.
\* Checked where either query is called, against the three other queries of
\* the position it is called in.
C21_MateAndStalemateByDefinition ==
    [][(lastCall'.op \in {"Board.isCheckmate", "Board.isStalemate"}) =>
          /\ MateAndStalemateAsDefined(IsInCheck(pieces, board, lastCall'.color),
                                       GetAllLegalMoves(pieces, board, lastCall'.color),
                                       IsCheckmate(pieces, board, lastCall'.color),
                                       IsStalemate(pieces, board, lastCall'.color))
          /\ lastCall'.ret =
                IF lastCall'.op = "Board.isCheckmate"
                THEN Ret(IsCheckmate(pieces, board, lastCall'.color))
                ELSE Ret(IsStalemate(pieces, board, lastCall'.color))]_vars

\* isCheckmate has answered true for a colour whose king is attacked
C21_CheckmateAnswered ==
    /\ lastCall.op = "Board.isCheckmate"
    /\ lastCall.ret = "true"
    /\ KingAttacked(pieces, board, lastCall.color)

FileLetters == {"a", "b", "c", "d", "e", "f", "g", "h"}
RankDigits == {"1", "2", "3", "4", "5", "6", "7", "8"}

\* the notation is exactly one file letter a-h followed by one rank digit 1-8
WellFormed(notation) ==
    /\ Len(notation) = 2
    /\ notation[1] \in FileLetters
    /\ notation[2] \in RankDigits

\* C22: Position.fromAlgebraic throws, producing no Position, for every input
\* that is not exactly one file letter a-h followed by one rank digit 1-8.
C22_MalformedNotationThrows ==
    (lastCall.op = "Position.fromAlgebraic" /\ ~WellFormed(lastCall.notation))
        => (lastCall.ret = "Error" /\ lastCall.position = NullPosition)

\* the notation with its file letter in lower case
LowerFile(notation) ==
    <<LowerCase[IndexIn(UpperCase, notation[1])], notation[2]>>

\* C23: Position.fromAlgebraic is case-insensitive in the file letter: for
\* every file A-H and rank 1-8 the upper-case notation parses to the square
\* the lower-case notation parses to; toAlgebraic always emits the lower-case
\* letter.
C23_UpperCaseFileParses ==
    /\ (/\ lastCall.op = "Position.fromAlgebraic"
        /\ Len(lastCall.notation) = 2
        /\ IsIn(UpperCase, lastCall.notation[1])
        /\ WellFormed(LowerFile(lastCall.notation)))
           => /\ lastCall.ret = "position"
              /\ Ok(lastCall.position) = FromAlgebraic(LowerFile(lastCall.notation))
    /\ (lastCall.op = "Position.toAlgebraic")
           => lastCall.notation[1] \in FileLetters

\* C24: constructing a Position succeeds exactly when row and col are both in
\* 0..7 and throws otherwise (row 8, column -1, the notation "i9"); a
\* Position that is built holds the row and the column it was built with.
C24_PositionBuiltOnlyOnBoard ==
    /\ (lastCall.op = "new Position")
           => /\ (lastCall.ret = "position")
                    <=> (lastCall.notation[1] \in 0..7 /\ lastCall.notation[2] \in 0..7)
              /\ (lastCall.ret # "position") => (lastCall.ret = "Error")
              /\ lastCall.position =
                    IF lastCall.ret = "position"
                    THEN Position(lastCall.notation[1], lastCall.notation[2])
                    ELSE NullPosition
    /\ (lastCall.op = "Position.fromAlgebraic" /\ lastCall.ret = "position")
           => (lastCall.position.row \in 0..7 /\ lastCall.position.col \in 0..7)

\* the square a well-formed notation names: the column is the file letter's
\* place in a-h, the rank is 8 - row
SquareNamed(notation) ==
    Position(8 - (IndexIn(Digits, notation[2]) - 1), IndexIn(LowerCase, notation[1]) - 1)

\* C25: for all 64 squares p, fromAlgebraic(toAlgebraic(p)) is p, and for every
\* well-formed lower-case notation s, toAlgebraic(fromAlgebraic(s)) is s, the
\* column mapped to the file letter and the rank being 8 - row ("e4" is row 4,
\* col 4).
C25_NotationRoundTrip ==
    /\ (lastCall.op = "Position.toAlgebraic")
           => /\ WellFormed(lastCall.notation)
              /\ FromAlgebraic(lastCall.notation) = Ok(lastCall.position)
              /\ lastCall.position = SquareNamed(lastCall.notation)
    /\ (lastCall.op = "Position.fromAlgebraic" /\ WellFormed(lastCall.notation))
           => /\ lastCall.ret = "position"
              /\ lastCall.position = SquareNamed(lastCall.notation)
              /\ ToAlgebraic(lastCall.position) = lastCall.notation
    /\ SquareNamed(<<"e", "4">>) = Position(4, 4)

\* "e4" has been parsed to row 4, col 4
C25_E4Parsed ==
    /\ lastCall.op = "Position.fromAlgebraic"
    /\ lastCall.notation = <<"e", "4">>
    /\ lastCall.ret = "position"
    /\ lastCall.position = Position(4, 4)
    /\ ToAlgebraic(lastCall.position) = <<"e", "4">>

\* C26: ChessGame.makeMoveFromAlgebraic called with a malformed from- or
\* to-notation returns false without throwing and without changing the board
\* (its pieces included), the side to move, the game state or the move count.
C26_MalformedNotationFailsSoftly ==
    [][(/\ lastCall'.op = "ChessGame.makeMoveFromAlgebraic"
        /\ (~WellFormed(lastCall'.notation[1]) \/ ~WellFormed(lastCall'.notation[2])))
           => (lastCall'.ret = "false" /\ UNCHANGED GameFields)]_vars

\* a call from an own piece's square to "a?" has returned false
C26_UnparsedRankRefused ==
    /\ lastCall.op = "ChessGame.makeMoveFromAlgebraic"
    /\ WellFormed(lastCall.notation[1])
    /\ GetPiece(board, SquareNamed(lastCall.notation[1])) # 0
    /\ lastCall.notation[2] = <<"a", "?">>
    /\ lastCall.ret = "false"

\* The non-promotion moves the rules give the pawn on p: one square forward
\* onto an empty square, two squares forward for an unmoved pawn over two empty
\* squares, a forward-diagonal capture of an enemy piece, and a forward-diagonal
\* move flagged isEnPassant onto the en-passant target.  A move onto row 0 or
\* row 7 by one step is a promotion and is not among them.
PawnPlainMoves(h, b, p) ==
    LET pawn == h[GetPiece(b, p)]
        ahead == p.row + (IF pawn.color = WHITE THEN 0 - 1 ELSE 1)
        twoAhead == ahead + (IF pawn.color = WHITE THEN 0 - 1 ELSE 1)
        diagonals == {q \in Squares : q.row = ahead /\ (q.col = p.col + 1 \/ q.col = p.col - 1)}
        free(row) == row \in 0..7 /\ GetPiece(b, Position(row, p.col)) = 0
    IN (IF free(ahead) /\ ahead \notin {0, 7}
        THEN {PlainMove(p, Position(ahead, p.col))} ELSE {})
       \cup (IF ~pawn.hasMoved /\ free(ahead) /\ free(twoAhead)
             THEN {PlainMove(p, Position(twoAhead, p.col))} ELSE {})
       \cup {PlainMove(p, q) :
                q \in {d \in diagonals : /\ GetPiece(b, d) # 0
                                         /\ h[GetPiece(b, d)].color # pawn.color
                                         /\ ahead \notin {0, 7}}}
       \cup {Move(p, q, NoPromotion, FALSE, TRUE) :
                q \in {d \in diagonals : d = b.enPassantTarget}}

\* the moves of the list that are not promotions, in the order of the list
NonPromotions(moves) ==
    SelectSeq(moves, LAMBDA m : m.promotionPiece = NoPromotion)

\* the same rules with the code's precedence on a diagonal square: where an
\* enemy piece stands on the en-passant target the move onto it is the capture,
\* and no move flagged isEnPassant goes there
PawnPlainMovesCaptureFirst(h, b, p) ==
    {m \in PawnPlainMoves(h, b, p) :
        m.isEnPassant => \/ GetPiece(b, m.toPos) = 0
                         \/ h[GetPiece(b, m.toPos)].color = h[GetPiece(b, p)].color}

\* what the generator returned holds each of the expected non-promotion moves
\* once and no other; where it throws, none was due
PlainMovesAre(expected, generated) ==
    IF Threw(generated) THEN expected = {}
    ELSE /\ SeqToSet(NonPromotions(generated.val)) = expected
         /\ Len(NonPromotions(generated.val)) = Cardinality(expected)

\* C27: between calls, a pawn's non-promotion pseudo-legal moves are exactly:
\* one square forward if that square is empty; two squares forward if
\* additionally the pawn has not moved and both squares are empty; a
\* forward-diagonal move if an enemy piece stands there; a forward-diagonal
\* move flagged isEnPassant if that square is the en-passant target and no
\* enemy piece stands on it; and nothing else.
C27_PawnMovesByRule ==
    (lastCall.op = "none") =>
        \A p \in Occupied(board) :
            (pieces[GetPiece(board, p)].pieceType = PAWN)
                => PlainMovesAre(PawnPlainMovesCaptureFirst(pieces, board, p),
                       PawnMoves(pieces, board, pieces[GetPiece(board, p)], p))

\* the same with a move flagged isEnPassant onto the en-passant target whatever
\* stands on it
C27_PawnMovesByRuleOnAnyTarget ==
    (lastCall.op = "none") =>
        \A p \in Occupied(board) :
            (pieces[GetPiece(board, p)].pieceType = PAWN)
                => PlainMovesAre(PawnPlainMoves(pieces, board, p),
                       PawnMoves(pieces, board, pieces[GetPiece(board, p)], p))

\* after a double push a pawn beside the advanced pawn has a forward move, an
\* en-passant move and no move onto its other, empty diagonal square
C27_PawnBesideDoublePush ==
    /\ board.enPassantTarget # NullPosition
    /\ \E p \in Occupied(board) :
          /\ pieces[GetPiece(board, p)].pieceType = PAWN
          /\ Cardinality(PawnPlainMoves(pieces, board, p)) = 2
          /\ \E m \in SeqToSet(PawnMoves(pieces, board, pieces[GetPiece(board, p)], p).val) :
                m.isEnPassant /\ m.toPos = board.enPassantTarget

Orthogonal == {<<0, 1>>, <<0, 0 - 1>>, <<1, 0>>, <<0 - 1, 0>>}
Diagonal == {<<1, 1>>, <<1, 0 - 1>>, <<0 - 1, 1>>, <<0 - 1, 0 - 1>>}

\* the square k steps from p in direction d (on or off the board)
Along(p, d, k) == Position(p.row + k * d[1], p.col + k * d[2])

\* The squares a ray-casting piece on p reaches: along each direction every
\* square before the first piece, and the square of that piece if it is an
\* enemy's.
RayDestinations(h, b, p, directions) ==
    {q \in Squares :
        \E d \in directions, k \in 1..7 :
            /\ q = Along(p, d, k)
            /\ \A j \in 1..(k - 1) : GetPiece(b, Along(p, d, j)) = 0
            /\ \/ GetPiece(b, q) = 0
               \/ h[GetPiece(b, q)].color # h[GetPiece(b, p)].color}

\* the destinations of a list of moves
Destinations(moves) == {m.toPos : m \in SeqToSet(moves)}

\* the piece on p, a rook, bishop or queen, moves as the rays say; a queen as
\* a rook and a bishop on its square together
MovesAlongRays(h, b, p) ==
    LET piece == h[GetPiece(b, p)] IN
    /\ (piece.pieceType = ROOK)
          => Destinations(RookMoves(h, b, piece, p)) = RayDestinations(h, b, p, Orthogonal)
    /\ (piece.pieceType = BISHOP)
          => Destinations(BishopMoves(h, b, piece, p)) = RayDestinations(h, b, p, Diagonal)
    /\ (piece.pieceType = QUEEN)
          => /\ Destinations(QueenMoves(h, b, piece, p))
                   = RayDestinations(h, b, p, Orthogonal \cup Diagonal)
             /\ Destinations(QueenMoves(h, b, piece, p))
                   = Destinations(RookMoves(h, b, piece, p))
                        \cup Destinations(BishopMoves(h, b, piece, p))

\* C28: between calls, the pseudo-legal destinations of a rook, bishop or queen are exactly
\* the squares reached along each of its directions (rook 4 orthogonal, bishop
\* 4 diagonal, queen all 8) up to and excluding the first own piece, up to and
\* including the first enemy piece, or up to the board edge; the queen's set is
\* the union of a rook's and a bishop's from the same square.
C28_SlidersFollowRays ==
    (lastCall.op = "none") =>
        \A p \in Occupied(board) : MovesAlongRays(pieces, board, p)

\* a queen stands on the board with a ray that ends on an enemy piece and a
\* ray that an own piece blocks
C28_QueenWithStoppedRays ==
    \E p \in Occupied(board) :
        /\ pieces[GetPiece(board, p)].pieceType = QUEEN
        /\ \E q \in Destinations(QueenMoves(pieces, board, pieces[GetPiece(board, p)], p)) :
              GetPiece(board, q) # 0
        /\ \E d \in Orthogonal \cup Diagonal, k \in 1..7 :
              /\ Along(p, d, k) \in Occupied(board)
              /\ pieces[GetPiece(board, Along(p, d, k))].color
                    = pieces[GetPiece(board, p)].color
              /\ \A j \in 1..(k - 1) : GetPiece(board, Along(p, d, j)) = 0

\* the 8 L-shaped offsets and the 8 adjacent offsets
LShaped ==
    {d \in (0 - 2..2) \X (0 - 2..2) : d[1] * d[1] + d[2] * d[2] = 5}
Adjacent ==
    {d \in (0 - 1..1) \X (0 - 1..1) : d # <<0, 0>>}

\* the on-board squares at the offsets from p that hold no piece of the colour
\* of the piece on p
StepDestinations(h, b, p, offsets) ==
    {q \in Squares :
        /\ \E d \in offsets : q = Along(p, d, 1)
        /\ \/ GetPiece(b, q) = 0
           \/ h[GetPiece(b, q)].color # h[GetPiece(b, p)].color}

\* what King.getPossibleMoves returned holds, castling apart, a move to each
\* adjacent destination and to no other square; where it throws, no move was due
KingStepsByRule(h, b, p, generated) ==
    IF Threw(generated) THEN StepDestinations(h, b, p, Adjacent) = {}
    ELSE Destinations(SelectSeq(generated.val, LAMBDA m : ~m.isCastling))
            = StepDestinations(h, b, p, Adjacent)

\* C29: a knight's pseudo-legal destinations are exactly the on-board squares
\* among its 8 L-shaped offsets that hold no piece of its colour, and a king's
\* non-castling pseudo-legal destinations are exactly the on-board squares
\* among its 8 adjacent offsets that hold no piece of its colour.
C29_KnightAndKingSteps ==
    \A p \in Occupied(board) :
        /\ (pieces[GetPiece(board, p)].pieceType = KNIGHT)
              => Destinations(KnightMoves(pieces, board, pieces[GetPiece(board, p)], p))
                    = StepDestinations(pieces, board, p, LShaped)
        /\ (pieces[GetPiece(board, p)].pieceType = KING)
              => KingStepsByRule(pieces, board, p, GetPossibleMoves(pieces, board, p))

\* some piece of the colour has a pseudo-legal move whose destination is the
\* square
SomeMoveLandsOn(h, b, position, color) ==
    \E p \in Occupied(b) :
        /\ h[GetPiece(b, p)].color = color
        /\ With(GetPossibleMoves(h, b, p), LAMBDA possibleMoves :
              ~Threw(possibleMoves) /\ LandsOn(possibleMoves.val, position))

\* isInCheck by isPositionUnderAttack on the king's square
CheckByAttackOnKing(h, b, color) ==
    IF FindKing(h, b, color) = NullPosition THEN "false"
    ELSE Ret(IsPositionUnderAttack(h, b, FindKing(h, b, color), color))

\* C30: isPositionUnderAttack(square, defendingColour) is true exactly when
\* some piece of the opposite colour has a pseudo-legal move whose destination
\* is that square, and false otherwise; isInCheck(colour) equals
\* isPositionUnderAttack applied to that colour's king square, and is false if
\* the colour has no king on the board.
C30_AttackedIffSomeMoveLands ==
    [][/\ (lastCall'.op = "Board.isPositionUnderAttack")
             => lastCall'.ret =
                   IF SomeMoveLandsOn(pieces, board, lastCall'.position,
                                      SwitchPlayer(lastCall'.color))
                   THEN "true" ELSE "false"
       /\ (lastCall'.op = "Board.isInCheck")
             => lastCall'.ret = CheckByAttackOnKing(pieces, board, lastCall'.color)]_vars

\* Heap h2 and board b2 are heap h and board b after the pawn on move.fromPos
\* promoted on move.toPos: the source empty, on the destination an object that
\* did not exist before, of the chosen kind, of the pawn's colour and marked as
\* moved; what stood on the destination appended to the captured list, the
\* pawn not; every other square and every older object's kind and colour as
\* before.
Promoted(h, b, h2, b2, move) ==
    LET pawn == GetPiece(b, move.fromPos)
        taken == GetPiece(b, move.toPos)
        promotedPiece == GetPiece(b2, move.toPos)
    IN /\ h[pawn].pieceType = PAWN
       /\ GetPiece(b2, move.fromPos) = 0
       /\ promotedPiece \notin 0..Len(h)
       /\ promotedPiece \in 1..Len(h2)
       /\ h2[promotedPiece] = [color |-> h[pawn].color,
                               pieceType |-> move.promotionPiece,
                               hasMoved |-> TRUE]
       /\ b2.capturedPieces = IF taken # 0 THEN Append(b.capturedPieces, taken)
                              ELSE b.capturedPieces
       /\ (taken # 0) => (h[taken].color # h[pawn].color)
       /\ pawn \notin SeqToSet(b2.capturedPieces)
       /\ \A p \in Squares \ {move.fromPos, move.toPos} :
              GetPiece(b2, p) = GetPiece(b, p)

\* C31: executing a promotion move clears the source square and puts on the
\* destination a newly created piece of the chosen kind and of the pawn's
\* colour with hasMoved = true; an enemy piece that stood on the destination is
\* appended to the captured list, and the pawn itself is not.
C31_PromotionPlacesNewPiece ==
    [][(Executes /\ Executed.promotionPiece # NoPromotion)
          => Promoted(pieces, board, pieces', board', Executed)]_vars

\* Board.makeMove has executed a promotion that captured a piece
C31_PromotedWithCapture ==
    /\ lastCall.op = "Board.makeMove"
    /\ lastCall.ret = "true"
    /\ lastCall.move.promotionPiece # NoPromotion
    /\ Len(board.capturedPieces) = 1
    /\ GetPiece(board, lastCall.move.fromPos) = 0
    /\ pieces[GetPiece(board, lastCall.move.toPos)].pieceType = lastCall.move.promotionPiece
    /\ pieces[GetPiece(board, lastCall.move.toPos)].hasMoved

\* the errors move execution throws when what was validated is not on the board
ConsistencyErrors ==
    {"Error: Attempted to execute move with no piece at source position",
     "Error: No king found for castling move",
     "Error: No rook found for kingside castling",
     "Error: No rook found for queenSide castling",
     "Error: No pawn found for en passant move"}

\* C32: the internal-consistency errors of move execution (no piece at the
\* source in executeMove, no king or no rook in executeCastling, no pawn in
\* executeEnPassant) are unreachable: no call of Board.makeMove or
\* getAllLegalMoves, nor of the checkmate and stalemate queries that
\* ChessGame.makeMove runs after a move, ever raises one of them.
C32_NoConsistencyError ==
    lastCall.ret \notin ConsistencyErrors

\* Board.makeMove has executed an en-passant capture, the branch of
\* executeMove with a check of its own, without an error
C32_EnPassantExecuted ==
    /\ lastCall.op = "Board.makeMove"
    /\ lastCall.ret = "true"
    /\ lastCall.move.isEnPassant
    /\ Len(board.capturedPieces) = 1

\* ChessGame.makeMove, called on the game as it is, returns true for the move
AcceptedNow(h, b, player, state, count, move) ==
    With(ChessGameMakeMove(h, b, player, state, count, move), LAMBDA made :
        made.err = "none" /\ made.val)

\* ChessGame.getLegalMoves, called on the game as it is, lists the move
ListedNow(h, b, player, move) ==
    With(GetLegalMoves(h, b, player), LAMBDA legal :
        legal.err = "none" /\ move \in SeqToSet(legal.val))

\* C33: in a non-terminal game state every move that getLegalMoves() returns
\* is accepted (makeMove returns true) when passed to ChessGame.makeMove
\* immediately afterwards, and ChessGame.makeMove accepts no move that
\* getLegalMoves() would not list.
C33_LegalMovesAreTheAcceptedMoves ==
    [][/\ (/\ lastCall'.op = "ChessGame.getLegalMoves"
           /\ gameState \in {ONGOING, CHECK})
             => \A i \in 1..Len(lastCall'.moves) :
                    AcceptedNow(pieces', board', currentPlayer', gameState',
                                moveCount', lastCall'.moves[i])
       /\ (lastCall'.op = "ChessGame.makeMove" /\ lastCall'.ret = "true")
             => ListedNow(pieces, board, currentPlayer, lastCall'.move)]_vars

\* from and to are the squares of an en-passant capture by the side to move: a
\* pawn of that side one row before the en-passant target, on a file beside it
EnPassantPair(h, b, player, fromPos, toPos) ==
    /\ fromPos \in Occupied(b)
    /\ h[GetPiece(b, fromPos)].pieceType = PAWN
    /\ h[GetPiece(b, fromPos)].color = player
    /\ toPos = b.enPassantTarget
    /\ toPos.row = fromPos.row + (IF player = WHITE THEN 0 - 1 ELSE 1)
    /\ (toPos.col = fromPos.col + 1 \/ toPos.col = fromPos.col - 1)

\* from and to are the squares of a castling move by the side to move: its
\* king going two columns along its row
CastlingPair(h, b, player, fromPos, toPos) ==
    /\ fromPos \in Occupied(b)
    /\ h[GetPiece(b, fromPos)].pieceType = KING
    /\ h[GetPiece(b, fromPos)].color = player
    /\ toPos.row = fromPos.row
    /\ (toPos.col = fromPos.col + 2 \/ toPos.col = fromPos.col - 2)

\* C34: a move entered through makeMoveFromAlgebraic has isCastling = false and
\* isEnPassant = false, and as Move.equals compares those flags no
\* makeMoveFromAlgebraic call executes a castling move or an en-passant
\* capture: such a from/to pair is rejected with false, the game unchanged.
C34_NotationNeverCastlesNorTakesEnPassant ==
    [][(lastCall'.op = "ChessGame.makeMoveFromAlgebraic") =>
          /\ Executes => (~Executed.isCastling /\ ~Executed.isEnPassant)
          /\ (/\ WellFormed(lastCall'.notation[1])
              /\ WellFormed(lastCall'.notation[2])
              /\ \/ EnPassantPair(pieces, board, currentPlayer,
                                  SquareNamed(lastCall'.notation[1]),
                                  SquareNamed(lastCall'.notation[2]))
                 \/ CastlingPair(pieces, board, currentPlayer,
                                 SquareNamed(lastCall'.notation[1]),
                                 SquareNamed(lastCall'.notation[2])))
                => (lastCall'.ret = "false" /\ UNCHANGED GameFields)]_vars

\* after a double push, the notation of the en-passant capture has been
\* refused: the target is still set and nothing is captured
C34_EnPassantNotationRefused ==
    /\ lastCall.op = "ChessGame.makeMoveFromAlgebraic"
    /\ lastCall.ret = "false"
    /\ Len(lastCall.notation[1]) = 2
    /\ Len(lastCall.notation[2]) = 2
    /\ WellFormed(lastCall.notation[1])
    /\ WellFormed(lastCall.notation[2])
    /\ EnPassantPair(pieces, board, currentPlayer, SquareNamed(lastCall.notation[1]),
                     SquareNamed(lastCall.notation[2]))
    /\ board.capturedPieces = <<>>

\* the number of pieces on the board plus the number of captured pieces
PiecesInPlay(b) == Cardinality(Occupied(b)) + Len(b.capturedPieces)

\* C35: through Board.makeMove the number of pieces on the board plus the
\* number of pieces in the captured list never changes and is 32 on the board
\* of a new game; each executed move appends exactly one entry, itself, to the
\* move history and at most one entry to the captured list; a move that is not
\* executed appends nothing to either list.
C35_PiecesAndHistoryAccounted ==
    /\ (board.grid = InitialGrid) => (PiecesInPlay(board) = 32)
    /\ [][(lastCall'.op = "Board.makeMove") =>
             /\ PiecesInPlay(board') = PiecesInPlay(board)
             /\ IF lastCall'.ret = "true"
                THEN /\ board'.moveHistory = Append(board.moveHistory, lastCall'.move)
                     /\ Len(board'.capturedPieces) - Len(board.capturedPieces) \in {0, 1}
                ELSE /\ board'.moveHistory = board.moveHistory
                     /\ board'.capturedPieces = board.capturedPieces]_vars

\* Board.makeMove has executed a capture that is not a promotion: every object
\* is on the board or in the captured list
C35_CaptureAccounted ==
    /\ lastCall.op = "Board.makeMove"
    /\ lastCall.ret = "true"
    /\ lastCall.move.promotionPiece = NoPromotion
    /\ Len(board.capturedPieces) = 1
    /\ PiecesInPlay(board) = Len(pieces)
    /\ board.moveHistory[Len(board.moveHistory)] = lastCall.move

\* the squares holding a pawn of the colour opposed to byColor
EnemyPawns(h, b, byColor) ==
    {p \in Occupied(b) : /\ h[GetPiece(b, p)].pieceType = PAWN
                         /\ h[GetPiece(b, p)].color # byColor}

\* the row one step ahead of the pawn on p
Ahead(h, b, p) == p.row + (IF h[GetPiece(b, p)].color = WHITE THEN 0 - 1 ELSE 1)

\* position is one of the two squares diagonally in front of the pawn on p
DiagonallyInFront(h, b, p, position) ==
    /\ position.row = Ahead(h, b, p)
    /\ position.col - p.col \in {0 - 1, 1}

\* the pawn on p can push straight forward onto the empty square position: one
\* step, or two steps by a pawn not marked as moved over an empty square
PushesOnto(h, b, p, position) ==
    /\ position.col = p.col
    /\ \/ position.row = Ahead(h, b, p)
       \/ /\ position.row = 2 * Ahead(h, b, p) - p.row
          /\ ~h[GetPiece(b, p)].hasMoved
          /\ GetPiece(b, Position(Ahead(h, b, p), p.col)) = 0

\* whether the pawn on p counts as an attacker of position, by the rule: an
\* empty square is attacked by the pawns that push onto it and, when it is the
\* en-passant target, by the pawns diagonally behind it; an occupied square by
\* the pawns diagonally behind it
PawnCounts(h, b, p, position) ==
    IF GetPiece(b, position) = 0
    THEN \/ PushesOnto(h, b, p, position)
         \/ /\ PositionEquals(position, b.enPassantTarget)
            /\ DiagonallyInFront(h, b, p, position)
    ELSE DiagonallyInFront(h, b, p, position)

\* some piece of the colour opposed to byColor that is not a pawn has a move
\* landing on position
OtherPieceLandsOn(h, b, position, byColor) ==
    \E q \in Occupied(b) \ EnemyPawns(h, b, byColor) :
        /\ h[GetPiece(b, q)].color # byColor
        /\ With(GetPossibleMoves(h, b, q), LAMBDA possibleMoves :
              ~Threw(possibleMoves) /\ LandsOn(possibleMoves.val, position))

\* the square asked about is empty or holds a piece of the defending colour
EmptyOrDefended(h, b, position, byColor) ==
    \/ GetPiece(b, position) = 0
    \/ h[GetPiece(b, position)].color = byColor

\* C36: isPositionUnderAttack(square, defendingColour), asked of a square that
\* is empty or holds a piece of the defending colour, counts an enemy pawn
\* exactly by this rule: on an empty square the pawns that can push straight
\* forward onto it (one or two steps) and, only when the square is the
\* en-passant target, the pawns diagonally behind it; on an occupied square the
\* pawns diagonally in front of which it stands.  So the answer false is given
\* only when no enemy pawn counts, and the answer true only when an enemy pawn
\* counts or another enemy piece has a move landing on the square.
C36_PawnsCountedByTheirMoves ==
    [][(/\ lastCall'.op = "Board.isPositionUnderAttack"
        /\ EmptyOrDefended(pieces, board, lastCall'.position, lastCall'.color)) =>
          /\ (lastCall'.ret = "false") =>
                 \A p \in EnemyPawns(pieces, board, lastCall'.color) :
                     ~PawnCounts(pieces, board, p, lastCall'.position)
          /\ (lastCall'.ret = "true") =>
                 \/ \E p \in EnemyPawns(pieces, board, lastCall'.color) :
                        PawnCounts(pieces, board, p, lastCall'.position)
                 \/ OtherPieceLandsOn(pieces, board, lastCall'.position,
                                      lastCall'.color)]_vars

\* isPositionUnderAttack has answered true for an empty square that no enemy
\* piece reaches but a pawn pushing straight onto it: no enemy pawn covers the
\* square diagonally
C36_PushCountedAsAttack ==
    /\ lastCall.op = "Board.isPositionUnderAttack"
    /\ lastCall.ret = "true"
    /\ GetPiece(board, lastCall.position) = 0
    /\ \E p \in EnemyPawns(pieces, board, lastCall.color) :
           PushesOnto(pieces, board, p, lastCall.position)
    /\ \A p \in EnemyPawns(pieces, board, lastCall.color) :
           ~DiagonallyInFront(pieces, board, p, lastCall.position)
    /\ ~OtherPieceLandsOn(pieces, board, lastCall.position, lastCall.color)

\* isPositionUnderAttack has answered false for an empty square that an enemy
\* pawn covers diagonally
C36_DiagonalCoverNotCounted ==
    /\ lastCall.op = "Board.isPositionUnderAttack"
    /\ lastCall.ret = "false"
    /\ GetPiece(board, lastCall.position) = 0
    /\ \E p \in EnemyPawns(pieces, board, lastCall.color) :
           DiagonallyInFront(pieces, board, p, lastCall.position)
====
